---- MODULE Spec2Model ----
(***************************************************************************)
(* Agent runtime of the moltis gateway: the agent loop of                   *)
(* crates/agents/src/runner.rs with its sanitizer, its context-window      *)
(* classifier and its text-embedded tool-call parser.                      *)
(*                                                                         *)
(* Program strings are sequences of UTF-8 bytes.  An ASCII byte is the     *)
(* one-character string of that character; the bytes of a multi-byte       *)
(* codepoint are a lead byte "L2", "L3" or "L4" followed by continuation  *)
(* bytes "X8"; the backquote (code 96) is written "BQ".                     *)
(***************************************************************************)
EXTENDS Integers, Sequences, FiniteSets, Bags, TLC

\* ---------------------------------------------------------------------
\* Strings (Rust String / &str as byte sequences)
\* ---------------------------------------------------------------------

\* The printable ASCII characters, in code order from 32 (space) to 126.
ASCII ==
  << " ", "!", "\"", "#", "$", "%", "&", "'", "(", ")", "*", "+", ",", "-", ".", "/",
     "0", "1", "2", "3", "4", "5", "6", "7", "8", "9", ":", ";", "<", "=", ">", "?",
     "@", "A", "B", "C", "D", "E", "F", "G", "H", "I", "J", "K", "L", "M", "N", "O",
     "P", "Q", "R", "S", "T", "U", "V", "W", "X8", "Y", "Z", "[", "\\", "]", "^", "_",
     "BQ", "a", "b", "c", "d", "e", "f", "g", "h", "i", "j", "k", "l", "m", "n", "o",
     "p", "q", "r", "s", "t", "u", "v", "w", "x", "y", "z", "{", "|", "}", "~" >>

Digits == <<"0", "1", "2", "3", "4", "5", "6", "7", "8", "9">>

\* Maximum number of tool-call loop iterations before giving up.
MAX_ITERATIONS == 25

\* Error patterns that indicate the context window has been exceeded.
CONTEXT_WINDOW_PATTERNS ==
  <<
     <<"c", "o", "n", "t", "e", "x", "t", "_", "l", "e", "n", "g", "t", "h", "_", "e", "x", "c", "e", "e", "d", "e", "d">>,
     <<"m", "a", "x", "_", "t", "o", "k", "e", "n", "s">>,
     <<"t", "o", "o", " ", "m", "a", "n", "y", " ", "t", "o", "k", "e", "n", "s">>,
     <<"r", "e", "q", "u", "e", "s", "t", " ", "t", "o", "o", " ", "l", "a", "r", "g", "e">>,
     <<"m", "a", "x", "i", "m", "u", "m", " ", "c", "o", "n", "t", "e", "x", "t", " ", "l", "e", "n", "g", "t", "h">>,
     <<"c", "o", "n", "t", "e", "x", "t", " ", "w", "i", "n", "d", "o", "w">>,
     <<"t", "o", "k", "e", "n", " ", "l", "i", "m", "i", "t">>,
     <<"c", "o", "n", "t", "e", "n", "t", "_", "t", "o", "o", "_", "l", "a", "r", "g", "e">>,
     <<"r", "e", "q", "u", "e", "s", "t", "_", "t", "o", "o", "_", "l", "a", "r", "g", "e">> >>

STATUS_413 == <<"s", "t", "a", "t", "u", "s", " ", "4", "1", "3">>

HTTP_413 == <<"h", "t", "t", "p", " ", "4", "1", "3">>

\* Placeholder tag for stripped base64 data URIs.
BASE64_TAG == <<"d", "a", "t", "a", ":">>

BASE64_MARKER == <<";", "b", "a", "s", "e", "6", "4", ",">>

\* Minimum length of a base64 payload to be worth stripping.
BASE64_MIN_LEN == 200

\* Minimum length of a hex run to be stripped.
HEX_MIN_LEN == 200

B64_REMOVED_PRE ==
  << "[", "b", "a", "s", "e", "6", "4", " ", "d", "a", "t", "a", " ", "r", "e",
     "m", "o", "v", "e", "d", " ", "L3", "X8", "X8", " ">>

B64_REMOVED_POST == <<" ", "b", "y", "t", "e", "s", "]">>

HEX_REMOVED_PRE ==
  << "[", "h", "e", "x", " ", "d", "a", "t", "a", " ", "r", "e", "m", "o", "v",
     "e", "d", " ", "L3", "X8", "X8", " ">>

HEX_REMOVED_POST == <<" ", "c", "h", "a", "r", "s", "]">>

TRUNC_PRE ==
  << "\n", "\n", "[", "t", "r", "u", "n", "c", "a", "t", "e", "d", " ", "L3",
     "X8", "X8", " ">>

TRUNC_POST == <<" ", "b", "y", "t", "e", "s", " ", "t", "o", "t", "a", "l", "]">>

START_MARKER == <<"BQ", "BQ", "BQ", "t", "o", "o", "l", "_", "c", "a", "l", "l">>

FENCE == <<"BQ", "BQ", "BQ">>

TEXT_ID_PREFIX == <<"t", "e", "x", "t", "-">>

AGENT_START_BLOCKED ==
  << "a", "g", "e", "n", "t", " ", "s", "t", "a", "r", "t", " ", "b", "l", "o",
     "c", "k", "e", "d", " ", "b", "y", " ", "h", "o", "o", "k", ":", " ">>

MESSAGE_SENDING_BLOCKED ==
  << "m", "e", "s", "s", "a", "g", "e", " ", "s", "e", "n", "d", "i", "n", "g",
     " ", "b", "l", "o", "c", "k", "e", "d", " ", "b", "y", " ", "h", "o", "o",
     "k", ":", " ">>

EXCEEDED_MAX_ITERATIONS ==
  << "a", "g", "e", "n", "t", " ", "l", "o", "o", "p", " ", "e", "x", "c", "e",
     "e", "d", "e", "d", " ", "m", "a", "x", " ", "i", "t", "e", "r", "a", "t",
     "i", "o", "n", "s">>

BLOCKED_BY_HOOK == <<"b", "l", "o", "c", "k", "e", "d", " ", "b", "y", " ", "h", "o", "o", "k", ":", " ">>

UNKNOWN_TOOL == <<"u", "n", "k", "n", "o", "w", "n", " ", "t", "o", "o", "l", ":", " ">>

RESULT_BLOCKED == <<"r", "e", "s", "u", "l", "t", " ", "b", "l", "o", "c", "k", "e", "d", ":", " ">>

K_error == <<"e", "r", "r", "o", "r">>

K_result == <<"r", "e", "s", "u", "l", "t">>

K_tool == <<"t", "o", "o", "l">>

K_arguments == <<"a", "r", "g", "u", "m", "e", "n", "t", "s">>

K_session_key == <<"_", "s", "e", "s", "s", "i", "o", "n", "_", "k", "e", "y">>

\* Code of a byte: the ASCII code, 10 for the newline, and a code above 127
\* for every byte of a multi-byte codepoint.
OrdTable ==
  [b \in {ASCII[i] : i \in 1..Len(ASCII)} \cup {"\n", "\t", "X8", "L2", "L3", "L4"} |->
     IF b = "\n" THEN 10
     ELSE IF b = "\t" THEN 9
     ELSE IF b = "X8" THEN 128
     ELSE IF b = "L2" THEN 194
     ELSE IF b = "L3" THEN 226
     ELSE IF b = "L4" THEN 240
     ELSE 31 + (CHOOSE i \in 1..Len(ASCII) : ASCII[i] = b)]

Ord(b) == OrdTable[b]

\* &s[..n]
Take(s, n) == SubSeq(s, 1, n)

\* &s[n..]
Drop(s, n) == SubSeq(s, n + 1, Len(s))

\* str::find: byte offset of the first occurrence of pat in s, -1 for None.
find(s, pat) ==
  LET hits == { i \in 0..(Len(s) - Len(pat)) : SubSeq(s, i + 1, i + Len(pat)) = pat }
  IN IF hits = {} THEN -1 ELSE CHOOSE i \in hits : \A j \in hits : i <= j

\* str::contains
contains(s, pat) == find(s, pat) # -1

\* char::to_lowercase on one byte (ASCII letters; other bytes unchanged).
LowerByte(b) ==
  IF Ord(b) >= 65 /\ Ord(b) <= 90 THEN ASCII[Ord(b) + 32 - 31] ELSE b

\* str::to_lowercase
to_lowercase(s) == [i \in 1..Len(s) |-> LowerByte(s[i])]

is_ascii_digit(b) == Ord(b) >= 48 /\ Ord(b) <= 57

is_ascii_alphanumeric(b) ==
  \/ is_ascii_digit(b)
  \/ (Ord(b) >= 65 /\ Ord(b) <= 90)
  \/ (Ord(b) >= 97 /\ Ord(b) <= 122)

is_ascii_hexdigit(b) ==
  \/ is_ascii_digit(b)
  \/ (Ord(b) >= 65 /\ Ord(b) <= 70)
  \/ (Ord(b) >= 97 /\ Ord(b) <= 102)

is_whitespace(b) == b \in {" ", "\n", "\t"}

\* str::is_char_boundary: offset 0, the end, or a byte that is not a
\* continuation byte.
is_char_boundary(s, i) ==
  \/ i = 0
  \/ i = Len(s)
  \/ (i > 0 /\ i < Len(s) /\ s[i + 1] # "X8")

\* char::len_utf8 of the codepoint whose first byte is b.
len_utf8(b) ==
  IF b = "L2" THEN 2 ELSE IF b = "L3" THEN 3 ELSE IF b = "L4" THEN 4 ELSE 1

\* str::trim
RECURSIVE trim_start(_)
trim_start(s) ==
  IF s # <<>> /\ is_whitespace(s[1]) THEN trim_start(Tail(s)) ELSE s

RECURSIVE trim_end(_)
trim_end(s) ==
  IF s # <<>> /\ is_whitespace(s[Len(s)]) THEN trim_end(Take(s, Len(s) - 1)) ELSE s

trim(s) == trim_end(trim_start(s))

\* format!("{n}") of an unsigned integer.
RECURSIVE fmt_usize(_)
fmt_usize(n) ==
  IF n < 10 THEN <<Digits[n + 1]>>
  ELSE fmt_usize(n \div 10) \o <<Digits[(n % 10) + 1]>>

\* Option<T>
NoneV == [some |-> FALSE]

Some(x) == [some |-> TRUE, v |-> x]

\* ---------------------------------------------------------------------
\* Context-window classifier
\* ---------------------------------------------------------------------

\* Check whether an error message indicates a context-window overflow.
is_context_window_error(msg) ==
  LET lower == to_lowercase(msg)
  IN \/ \E i \in 1..Len(CONTEXT_WINDOW_PATTERNS) :
          contains(lower, CONTEXT_WINDOW_PATTERNS[i])
     \/ contains(lower, STATUS_413)
     \/ contains(lower, HTTP_413)

\* ---------------------------------------------------------------------
\* Tool result sanitization
\* ---------------------------------------------------------------------

\* Length of the longest prefix of s made of base64 bytes.
base64_prefix_len(s) ==
  LET stops == { i \in 1..Len(s) :
                   ~(is_ascii_alphanumeric(s[i]) \/ s[i] \in {"+", "/", "="}) }
  IN IF stops = {} THEN Len(s)
     ELSE (CHOOSE i \in stops : \A j \in stops : i <= j) - 1

RECURSIVE strip_base64_loop(_, _)
strip_base64_loop(result, rest) ==
  LET start == find(rest, BASE64_TAG)
      after_tag == Drop(rest, start + Len(BASE64_TAG))
      marker_pos == find(after_tag, BASE64_MARKER)
      payload_start == marker_pos + Len(BASE64_MARKER)
      payload_len == base64_prefix_len(Drop(after_tag, payload_start))
      total_uri_len == Len(BASE64_TAG) + payload_start + payload_len
  IN IF start = -1 THEN result \o rest
     ELSE IF marker_pos # -1 /\ payload_len >= BASE64_MIN_LEN
     THEN strip_base64_loop(
            result \o Take(rest, start)
                   \o B64_REMOVED_PRE \o fmt_usize(total_uri_len) \o B64_REMOVED_POST,
            Drop(rest, start + total_uri_len))
     ELSE strip_base64_loop(result \o Take(rest, start) \o BASE64_TAG, after_tag)

\* Strip base64 data-URI blobs and replace them with a short placeholder.
strip_base64_blobs(input) == strip_base64_loop(<<>>, input)

\* Length of the longest prefix of s made of ASCII hex digits.
hex_prefix_len(s) ==
  LET stops == { i \in 1..Len(s) : ~is_ascii_hexdigit(s[i]) }
  IN IF stops = {} THEN Len(s)
     ELSE (CHOOSE i \in stops : \A j \in stops : i <= j) - 1

\* Variant: a long hex run gets the marker and is kept after it.
RECURSIVE strip_hex_loop_keeps_run(_, _)
strip_hex_loop_keeps_run(result, rest) ==
  LET run == hex_prefix_len(rest)
      w == len_utf8(rest[1])
  IN IF rest = <<>> THEN result
     ELSE IF run > 0
     THEN strip_hex_loop_keeps_run(
            IF run >= HEX_MIN_LEN
            THEN result \o HEX_REMOVED_PRE \o fmt_usize(run) \o HEX_REMOVED_POST
                        \o Take(rest, run)
            ELSE result \o Take(rest, run),
            Drop(rest, run))
     ELSE strip_hex_loop_keeps_run(result \o Take(rest, w), Drop(rest, w))

RECURSIVE strip_hex_loop(_, _)
strip_hex_loop(result, rest) ==
  LET run == hex_prefix_len(rest)
      w == len_utf8(rest[1])
  IN IF rest = <<>> THEN result
     ELSE IF run > 0
     THEN strip_hex_loop(
            IF run >= HEX_MIN_LEN
            THEN result \o HEX_REMOVED_PRE \o fmt_usize(run) \o HEX_REMOVED_POST
            ELSE result \o Take(rest, run),
            Drop(rest, run))
     ELSE strip_hex_loop(result \o Take(rest, w), Drop(rest, w))

\* Strip long hex sequences that look like binary dumps.
strip_hex_blobs(input) == strip_hex_loop(<<>>, input)

\* The truncation point: max_bytes moved left to a char boundary.
RECURSIVE floor_char_boundary(_, _)
floor_char_boundary(s, end) ==
  IF end > 0 /\ ~is_char_boundary(s, end)
  THEN floor_char_boundary(s, end - 1)
  ELSE end

\* Variant: the marker is appended and nothing is cut.
sanitize_tool_result_uncut(input, max_bytes) ==
  LET stripped == strip_hex_blobs(strip_base64_blobs(input))
  IN IF Len(stripped) > max_bytes
     THEN stripped \o TRUNC_PRE \o fmt_usize(Len(stripped)) \o TRUNC_POST
     ELSE stripped

\* Sanitize a tool result string before feeding it to the LLM.
sanitize_tool_result(input, max_bytes) ==
  LET result == strip_hex_blobs(strip_base64_blobs(input))
      original_len == Len(result)
  IN IF original_len > max_bytes
     THEN Take(result, floor_char_boundary(result, max_bytes))
            \o TRUNC_PRE \o fmt_usize(original_len) \o TRUNC_POST
     ELSE result


\* ---------------------------------------------------------------------
\* serde_json::Value
\* ---------------------------------------------------------------------

JNull == [t |-> "Null"]

JStr(s) == [t |-> "String", s |-> s]

JNum(n) == [t |-> "Number", n |-> n]

\* An object is a map from keys (strings) to values.
JObj(m) == [t |-> "Object", m |-> m]

EmptyMap == [k \in {} |-> JNull]

\* json!({ key: value })
Obj1(key, value) == JObj([k \in {key} |-> value])

\* Value::as_str
as_str(v) == IF v.t = "String" THEN Some(v.s) ELSE NoneV

\* Value::get(key) on any value
get_key(v, key) ==
  IF v.t = "Object" /\ key \in DOMAIN v.m THEN Some(v.m[key]) ELSE NoneV

\* Index by key: Null when v is not an object or has no such key.
index_key(v, key) ==
  IF get_key(v, key).some THEN get_key(v, key).v ELSE JNull

\* Byte-wise lexicographic order of two strings (the key order of a Map).
RECURSIVE BytesLess(_, _)
BytesLess(a, b) ==
  IF b = <<>> THEN FALSE
  ELSE IF a = <<>> THEN TRUE
  ELSE IF a[1] # b[1] THEN Ord(a[1]) < Ord(b[1])
  ELSE BytesLess(Tail(a), Tail(b))

\* The keys of a map in iteration order.
RECURSIVE SortedKeys(_)
SortedKeys(ks) ==
  IF ks = {} THEN <<>>
  ELSE LET least == CHOOSE k \in ks : \A j \in ks \ {k} : BytesLess(k, j)
       IN <<least>> \o SortedKeys(ks \ {least})

\* The escaped body of a JSON string.
RECURSIVE escape_str(_)
escape_str(s) ==
  IF s = <<>> THEN <<>>
  ELSE (IF s[1] = "\"" THEN <<"\\", "\"">>
        ELSE IF s[1] = "\\" THEN <<"\\", "\\">>
        ELSE IF s[1] = "\n" THEN <<"\\", "n">>
        ELSE IF s[1] = "\t" THEN <<"\\", "t">>
        ELSE <<s[1]>>) \o escape_str(Tail(s))

\* Value::to_string: compact JSON text.
RECURSIVE to_string(_)
RECURSIVE members_to_string(_, _)
members_to_string(m, keys) ==
  IF keys = <<>> THEN <<>>
  ELSE <<"\"">> \o escape_str(keys[1]) \o <<"\"", ":">> \o to_string(m[keys[1]])
         \o (IF Len(keys) > 1 THEN <<",">> ELSE <<>>)
         \o members_to_string(m, Tail(keys))

to_string(v) ==
  IF v.t = "Null" THEN <<"n", "u", "l", "l">>
  ELSE IF v.t = "String" THEN <<"\"">> \o escape_str(v.s) \o <<"\"">>
  ELSE IF v.t = "Number" THEN fmt_usize(v.n)
  ELSE <<"{">> \o members_to_string(v.m, SortedKeys(DOMAIN v.m)) \o <<"}">>

\* ---------------------------------------------------------------------
\* Text-embedded tool calls
\* ---------------------------------------------------------------------

\* The JSON values a fenced block of the modelled responses can hold.
ToolJsonValues ==
  { Obj1(K_tool, JStr(<<"e", "c", "h", "o">>)),
    JObj([k \in {K_tool, K_arguments} |->
            IF k = K_tool THEN JStr(<<"n", "o", "p", "e">>)
            ELSE Obj1(<<"a">>, JStr(<<"2">>))]),
    Obj1(K_tool, JNum(1)),
    Obj1(K_arguments, JObj(EmptyMap)) }

\* serde_json::from_str(..).ok(): the value whose compact text is s, None
\* when s is not the text of a value.
from_str(s) ==
  IF \E v \in ToolJsonValues : to_string(v) = s
  THEN Some(CHOOSE v \in ToolJsonValues : to_string(v) = s)
  ELSE NoneV

ToolCall(id, name, arguments) == [id |-> id, name |-> name, arguments |-> arguments]

\* Try to parse a tool call from the LLM's text response.  uuid is the
\* value Uuid::new_v4() returns.  The result is None or
\* Some([tc |-> ToolCall, remaining |-> Option<String>]).
parse_tool_call_from_text(text, uuid) ==
  LET start == find(text, START_MARKER)
      after_marker == start + Len(START_MARKER)
      rest == Drop(text, after_marker)
      end == find(rest, FENCE)
      json_str == trim(Take(rest, end))
      parsed == from_str(json_str)
      tool_name == as_str(index_key(parsed.v, K_tool))
      arguments ==
        IF get_key(parsed.v, K_arguments).some
        THEN get_key(parsed.v, K_arguments).v
        ELSE JObj(EmptyMap)
      id == TEXT_ID_PREFIX \o uuid
      before == trim(Take(text, start))
      after_end == after_marker + end + 3
      after == trim(IF after_end <= Len(text) THEN Drop(text, after_end) ELSE <<>>)
      remaining ==
        IF before = <<>> /\ after = <<>> THEN NoneV
        ELSE IF before = <<>> THEN Some(after)
        ELSE IF after = <<>> THEN Some(before)
        ELSE Some(before \o <<"\n">> \o after)
  IN IF start = -1 THEN NoneV
     ELSE IF end = -1 THEN NoneV
     ELSE IF ~parsed.some THEN NoneV
     ELSE IF ~tool_name.some THEN NoneV
     ELSE Some([tc |-> ToolCall(id, tool_name.v, arguments), remaining |-> remaining])

\* ---------------------------------------------------------------------
\* Bounds and inputs of the agent loop
\* ---------------------------------------------------------------------

\* Most tool calls in one provider response.
MaxCalls == 2

\* The provider answers freely in the first iteration; in a later one it
\* answers with PlainFinal or an error, or with PlainResponse as long as every
\* answer of the turn was that one, so that a turn can run up to the
\* iteration cap.  MaxRichChoices is the number of times in a turn that a
\* BeforeToolCall or ToolResultPersist hook may answer Block or
\* ModifyPayload, or a tool may fail; they do so in the first iteration.
\* The answers of the other hook points are free in every iteration.
MaxRichChoices == 1

\* u32::saturating_add.  The token counts of a turn (at most MAX_ITERATIONS
\* responses of UsageSet) stay far below u32::MAX, where it is the sum.
saturating_add(a, b) == a + b

SYSTEM_PROMPT == <<"s", "y", "s">>

USER_MESSAGE == <<"h", "i">>

ECHO == <<"e", "c", "h", "o">>

NOPE == <<"n", "o", "p", "e">>

\* ToolRegistry::get on the registry of the turn, which holds the tool "echo".
RegisteredTools == {ECHO}

tools_get(name) == name \in RegisteredTools

\* The tool calls a provider response may carry.
ToolCalls ==
  { ToolCall(<<"c", "1">>, ECHO, Obj1(<<"a">>, JStr(<<"1">>))),
    ToolCall(<<"c", "2">>, NOPE, JObj(EmptyMap)) }

PlainCall == ToolCall(<<"c", "1">>, ECHO, Obj1(<<"a">>, JStr(<<"1">>)))

ToolCallLists ==
  UNION { [1..n -> ToolCalls] : n \in 1..MaxCalls }

Fenced(before, interior, after) ==
  before \o START_MARKER \o <<"\n">> \o interior \o <<"\n">> \o FENCE \o after

\* Response texts: plain text, and texts with a tool_call fence whose
\* interior is a tool call, a tool call with text around it, not JSON, JSON
\* without a string "tool", and a fence that is never closed.
ResponseTexts ==
  { <<"o", "k">>,
    Fenced(<<>>, to_string(Obj1(K_tool, JStr(ECHO))), <<>>),
    Fenced(<<"h", "m", "\n">>,
           to_string(JObj([k \in {K_tool, K_arguments} |->
              IF k = K_tool THEN JStr(NOPE) ELSE Obj1(<<"a">>, JStr(<<"2">>))])),
           <<"\n", "y">>),
    Fenced(<<>>, <<"x">>, <<>>),
    Fenced(<<>>, to_string(Obj1(K_tool, JNum(1))), <<>>),
    START_MARKER \o <<"\n", "x">> }

UsageSet == { [input_tokens |-> 10, output_tokens |-> 5] }

\* CompletionResponse values provider.complete may return.
CompletionResponses ==
  [text : {NoneV} \cup {Some(t) : t \in ResponseTexts},
   tool_calls : {<<>>}, usage : UsageSet]
  \cup
  [text : {NoneV, Some(<<"o", "k">>)}, tool_calls : ToolCallLists, usage : UsageSet]

PlainResponse ==
  [text |-> NoneV, tool_calls |-> <<PlainCall>>,
   usage |-> [input_tokens |-> 10, output_tokens |-> 5]]

\* Error messages provider.complete may fail with.
ProviderErrors ==
  { <<"C", "o", "n", "t", "e", "x", "t", "_", "L", "e", "n", "g", "t", "h", "_",
      "E", "x", "c", "e", "e", "d", "e", "d", ":", " ", "8", "k">>,
    <<"H", "T", "T", "P", " ", "4", "1", "3">>,
    <<"s", "t", "a", "t", "u", "s", " ", "4", "1", "4">>,
    <<"r", "a", "t", "e", " ", "l", "i", "m", "i", "t">> }

\* Values Uuid::new_v4() may return.
Uuids == { <<"7">> }

\* HookAction, and the Err of a failed dispatch.
HookContinue == [tag |-> "Continue"]

HookBlock(reason) == [tag |-> "Block", reason |-> reason]

HookModifyPayload(v) == [tag |-> "ModifyPayload", v |-> v]

HookErr == [tag |-> "Err"]

\* The reason of a Block; it contains a context-window pattern.
BLOCK_REASON == <<"t", "o", "k", "e", "n", " ", "l", "i", "m", "i", "t">>

REDACTED == Obj1(K_result, JStr(<<"[", "R", "]">>))

\* A replacement payload that is not a JSON object.
REDACTED_TEXT == JStr(<<"[", "R", "]">>)

\* What HookRegistry::dispatch and dispatch_sync may return.
HookResults ==
  { HookContinue, HookBlock(BLOCK_REASON), HookModifyPayload(REDACTED), HookErr }

\* What tool.execute may return: Ok(value) or Err(message).
ToolResults ==
  { [ok |-> TRUE, val |-> JStr(<<"h", "i">>)],
    [ok |-> FALSE, err |-> <<"b", "o", "o", "m">>] }

PlainToolResult == [ok |-> TRUE, val |-> JStr(<<"h", "i">>)]

PlainFinal ==
  [text |-> Some(<<"o", "k">>), tool_calls |-> <<>>,
   usage |-> [input_tokens |-> 10, output_tokens |-> 5]]

\* Values of tools.max_tool_result_bytes in the loaded configuration.
MaxToolResultBytes == {8, 50000}

\* The history argument: absent, or an earlier exchange whose assistant
\* message has a tool call that was never answered.
Histories ==
  { NoneV,
    Some(<< [role |-> "user", content |-> <<"q">>],
            [role |-> "assistant",
             tool_calls |-> << [id |-> <<"c", "0">>, type |-> "function",
                                function |-> [name |-> ECHO, arguments |-> <<"{", "}">>]] >>] >>) }

\* The tool_context argument.
ToolContexts ==
  { NoneV, Some(JObj([k \in {K_session_key, <<"a">>} |-> JStr(<<"s">>)])) }

\* The arguments and the configuration of the turns that are explored:
\* every value of on_event, tool_context, history and max_tool_result_bytes
\* occurs, each with either value of the other three.
TurnArguments ==
  { a \in [on_event : BOOLEAN, tool_context : ToolContexts, history : Histories,
           max_tool_result_bytes : MaxToolResultBytes] :
      \/ a.on_event /\ a.tool_context.some /\ a.history.some /\ a.max_tool_result_bytes = 8
      \/ a.on_event /\ ~a.tool_context.some /\ ~a.history.some /\ a.max_tool_result_bytes > 8
      \/ ~a.on_event /\ a.tool_context.some /\ ~a.history.some /\ a.max_tool_result_bytes > 8
      \/ ~a.on_event /\ ~a.tool_context.some /\ a.history.some /\ a.max_tool_result_bytes = 8 }

\* ---------------------------------------------------------------------
\* The agent loop: run_agent_loop_with_context
\* ---------------------------------------------------------------------

VARIABLES
  native_tools,            \* provider.supports_tools()
  on_event,                \* whether an event callback was passed
  hook_registry,           \* whether a hook registry was passed
  tool_context,            \* Option<Value> merged into every tool call
  history,                 \* Option<Vec<Value>>
  max_tool_result_bytes,   \* tools.max_tool_result_bytes of the configuration
  pc,                      \* the suspension point the turn is at
  messages,                \* the message list sent to the provider
  iterations,
  total_tool_calls,
  total_input_tokens,
  total_output_tokens,
  response,                \* the CompletionResponse of this iteration
  tc_index,                \* position of the tool-call loop in response.tool_calls
  effective_args,          \* arguments of the call being handled
  exec_result,             \* what tool.execute returned for it
  result,                  \* its JSON envelope
  ret,                     \* what the turn returned
  events,                  \* the RunnerEvents passed to on_event, in order
  provider_calls,          \* number of provider.complete calls made
  executed,                \* the tool.execute calls made, in order
  responses,               \* the responses handled so far, one per iteration
  provider_failure,        \* the message provider.complete failed with, if it failed
  last_hook,               \* the hook dispatch of the last step and what it returned
  rich                     \* times a hook or a tool changed the course of a tool call

\* The chat service: LiveChatService and the tasks it spawns
VARIABLES
  has_tools,               \* whether the service's tool registry holds a tool
  providers,               \* the provider registry, in registration order
  session_store,           \* the persisted message log of the session
  appended_by,             \* for each persisted message, the send that appended it
  active_runs,             \* run ids that have an abort handle in the map
  chat,                    \* per chat.send: where the call and its task are
  frames,                  \* per run id, the frames broadcast to the clients, in order
  faults,                  \* operations of the session store that failed
  aborts                   \* chat.abort calls received

chat_vars ==
  <<has_tools, providers, session_store, appended_by, active_runs, chat, frames, faults,
    aborts>>

\* The sandbox router: SandboxRouter
VARIABLES
  mode,                    \* config.mode
  config_image,            \* config.image
  overrides,               \* per-session overrides: key -> Option<bool>
  image_overrides,         \* per-session image overrides: key -> Option<String>
  global_image_override,   \* Option<String>
  override_calls,          \* per key, the set_override and remove_override calls so far
  answer                   \* the last call and what it returned

router_vars ==
  <<mode, config_image, overrides, image_overrides, global_image_override, override_calls,
    answer>>

\* The failover wrapper: FailoverSandbox
VARIABLES
  primary_name,            \* primary.backend_name()
  use_fallback,            \* the flag behind the lock
  fo_ops                   \* the operations started on the wrapper: where each is and
                           \* the calls it made to the two backends, in order

failover_vars == <<primary_name, use_fallback, fo_ops>>

\* The Apple Container backend: AppleContainerSandbox
VARIABLES
  name_generations,        \* key -> Option<u32>
  apple_ops,               \* the operations started on the backend and where each is
  unremoved                \* container names handed to `container run` and not removed since

apple_vars == <<name_generations, apple_ops, unremoved>>

sandbox_vars == <<router_vars, failover_vars, apple_vars>>

\* The tool registry (ToolRegistry) and the functions that are called on
\* their own
VARIABLES
  tools,                   \* ToolRegistry.tools: name -> Option<tool>
  registered,              \* the tools handed to register so far, in order
  lookup,                  \* the last get and what it returned
  fn_call,                 \* the function that is called and its arguments
  fn_ret                   \* what the calls made so far have returned, in order

library_vars == <<tools, registered, lookup, fn_call, fn_ret>>

\* The gateway state: the idempotency cache (DedupeCache)
VARIABLES
  entries,                 \* DedupeCache.entries: key -> Option<inserted_at>
  now,                     \* what Instant::now() returns
  checks                   \* the check_and_insert calls made so far, in order

dedupe_vars == <<entries, now, checks>>

\* The gateway state: the node registry (NodeRegistry)
VARIABLES
  nodes,                   \* NodeRegistry.nodes: node_id -> Option<NodeSession>
  by_conn,                 \* NodeRegistry.by_conn: conn_id -> Option<node_id>
  node_op                  \* the last call on the registry and what it returned

node_vars == <<nodes, by_conn, node_op>>

\* The gateway state: node.invoke and node.invoke.result
VARIABLES
  pending_invokes,         \* GatewayState.pending_invokes: the invoke ids it holds
  invokes                  \* per node.invoke call: where it is and what the node did

invoke_vars == <<pending_invokes, invokes>>

\* The MCP transport (StdioTransport)
VARIABLES
  pending,                 \* StdioTransport.pending: the request ids it holds
  next_id,                 \* StdioTransport.next_id
  requests                 \* per request call: where it is and what it returned

transport_vars == <<pending, next_id, requests>>

gateway_vars == <<dedupe_vars, node_vars, invoke_vars, transport_vars>>

\* The state of the components the agent loop does not touch.
outside == <<chat_vars, sandbox_vars, library_vars, gateway_vars>>

inputs ==
  <<native_tools, on_event, hook_registry, tool_context, history, max_tool_result_bytes,
    outside>>

vars ==
  <<native_tools, on_event, hook_registry, tool_context, history, max_tool_result_bytes,
    pc, messages, iterations, total_tool_calls, total_input_tokens, total_output_tokens,
    response, tc_index, effective_args, exec_result, result, ret, events,
    provider_calls, executed, responses, provider_failure, last_hook, rich>>

\* A local that holds no value at the current point.
Unset == [unset |-> TRUE]

Running == [status |-> "Running"]

\* Ok(AgentRunResult { .. })
OkResult(text, iters, calls, input_tokens, output_tokens) ==
  [status |-> "Ok", text |-> text, iterations |-> iters, tool_calls_made |-> calls,
   usage |-> [input_tokens |-> input_tokens, output_tokens |-> output_tokens]]

\* Err(AgentRunError::Other(anyhow!(msg)))
ErrOther(msg) == [status |-> "Err", variant |-> "Other", msg |-> msg]

\* Err(AgentRunError::ContextWindowExceeded(msg))
ErrContextWindowExceeded(msg) ==
  [status |-> "Err", variant |-> "ContextWindowExceeded", msg |-> msg]

\* RunnerEvent
EvIteration(n) == [ev |-> "Iteration", n |-> n]

EvThinking == [ev |-> "Thinking"]

EvThinkingDone == [ev |-> "ThinkingDone"]

EvThinkingText(text) == [ev |-> "ThinkingText", text |-> text]

EvToolCallStart(tc) ==
  [ev |-> "ToolCallStart", id |-> tc.id, name |-> tc.name, arguments |-> tc.arguments]

EvToolCallEnd(tc, success, error, res) ==
  [ev |-> "ToolCallEnd", id |-> tc.id, name |-> tc.name, success |-> success,
   error |-> error, result |-> res]

\* if let Some(cb) = on_event { cb(e) }
Emit(evs, e) == IF on_event THEN Append(evs, e) ELSE evs

\* The message list before the first iteration.
InitialMessages ==
  <<[role |-> "system", content |-> SYSTEM_PROMPT]>>
    \o (IF history.some THEN history.v ELSE <<>>)
    \o <<[role |-> "user", content |-> USER_MESSAGE]>>

\* The assistant message with the tool calls of a response.
AssistantMessage(r) ==
  LET tool_calls_json ==
        [i \in 1..Len(r.tool_calls) |->
           [id |-> r.tool_calls[i].id, type |-> "function",
            function |-> [name |-> r.tool_calls[i].name,
                          arguments |-> to_string(r.tool_calls[i].arguments)]]]
  IN IF r.text.some
     THEN [role |-> "assistant", tool_calls |-> tool_calls_json, content |-> r.text.v]
     ELSE [role |-> "assistant", tool_calls |-> tool_calls_json]

ToolMessage(id, content) == [role |-> "tool", tool_call_id |-> id, content |-> content]

\* What a hook dispatch at the current point may return.  Without a hook
\* registry nothing is dispatched, which leaves the loop where Continue does.
NoHook == [point |-> "none", tag |-> "none"]

Logged(point, h) ==
  IF hook_registry THEN [point |-> point, tag |-> h.tag] ELSE NoHook

\* Whether a hook or a tool may change the course of the current tool call.
RichAllowed == iterations <= 1 /\ rich < MaxRichChoices

\* What a hook dispatch at the current point may return; substitutes tells
\* whether Block and ModifyPayload change what the current tool call does
\* there.  Without a hook registry nothing is dispatched, which leaves the
\* loop where Continue does.
DispatchResults(substitutes) ==
  IF ~hook_registry THEN {HookContinue}
  ELSE { h \in HookResults :
           \/ ~substitutes
           \/ h.tag \in {"Continue", "Err"}
           \/ RichAllowed }

Spent(substitutes, h) ==
  IF substitutes /\ h.tag \notin {"Continue", "Err"} THEN rich + 1 ELSE rich

\* No chat.send was received.
ChatIdle ==
  /\ session_store = <<>>
  /\ appended_by = <<>>
  /\ active_runs = {}
  /\ chat = <<>>
  /\ frames = <<>>
  /\ faults = 0
  /\ aborts = 0

\* The router, the wrapper and the backend are not followed.
RouterIdle ==
  /\ mode = "Off"
  /\ config_image = NoneV
  /\ overrides = <<>>
  /\ image_overrides = <<>>
  /\ global_image_override = NoneV
  /\ override_calls = <<>>
  /\ answer = NoneV

FailoverIdle ==
  /\ primary_name = <<>>
  /\ use_fallback = FALSE
  /\ fo_ops = <<>>

AppleIdle ==
  /\ name_generations = <<>>
  /\ apple_ops = <<>>
  /\ unremoved = {}

LibraryIdle ==
  /\ tools = <<>>
  /\ registered = <<>>
  /\ lookup = NoneV
  /\ fn_call = NoneV
  /\ fn_ret = <<>>

\* The idempotency cache is not followed.
DedupeIdle ==
  /\ entries = <<>>
  /\ now = 0
  /\ checks = <<>>

\* The node registry is not followed.
NodesIdle ==
  /\ nodes = <<>>
  /\ by_conn = <<>>
  /\ node_op = NoneV

\* No node.invoke is followed.
InvokeIdle ==
  /\ pending_invokes = {}
  /\ invokes = <<>>

\* The transport is not followed.
TransportIdle ==
  /\ pending = {}
  /\ next_id = 1
  /\ requests = <<>>

\* The gateway state is not followed.
GatewayIdle ==
  /\ DedupeIdle
  /\ NodesIdle
  /\ InvokeIdle
  /\ TransportIdle

ChatParked ==
  /\ has_tools = TRUE
  /\ providers = <<>>
  /\ ChatIdle

Init ==
  /\ GatewayIdle
  /\ ChatParked
  /\ RouterIdle
  /\ FailoverIdle
  /\ AppleIdle
  /\ LibraryIdle
  /\ native_tools \in BOOLEAN
  /\ hook_registry \in BOOLEAN
  /\ \E a \in TurnArguments :
       /\ on_event = a.on_event
       /\ tool_context = a.tool_context
       /\ history = a.history
       /\ max_tool_result_bytes = a.max_tool_result_bytes
  /\ pc = "BeforeAgentStart"
  /\ messages = <<>>
  /\ iterations = 0
  /\ total_tool_calls = 0
  /\ total_input_tokens = 0
  /\ total_output_tokens = 0
  /\ response = Unset
  /\ tc_index = 0
  /\ effective_args = Unset
  /\ exec_result = Unset
  /\ result = Unset
  /\ ret = Running
  /\ events = <<>>
  /\ provider_calls = 0
  /\ executed = <<>>
  /\ responses = <<>>
  /\ provider_failure = NoneV
  /\ last_hook = NoHook
  /\ rich = 0

\* --- BeforeAgentStart hook, then the initial message list ---------------

\* Variant: a Block of BeforeAgentStart is ignored.
BeforeAgentStartNeverBlocks(h) == FALSE

\* The match on the BeforeAgentStart dispatch: whether it ends the turn.
BeforeAgentStartBlocks(h) == h.tag = "Block"

BeforeAgentStartEffect(h) ==
  /\ IF BeforeAgentStartBlocks(h)
     THEN /\ ret' = ErrOther(AGENT_START_BLOCKED \o h.reason)
          /\ pc' = "Returned"
          /\ UNCHANGED messages
     ELSE /\ messages' = InitialMessages
          /\ pc' = "LoopTop"
          /\ UNCHANGED ret
  /\ UNCHANGED <<inputs, iterations, total_tool_calls, total_input_tokens,
                 total_output_tokens, response, tc_index, effective_args, exec_result,
                 result, events, provider_calls, executed, responses, provider_failure>>

BeforeAgentStart ==
  /\ pc = "BeforeAgentStart"
  /\ \E h \in DispatchResults(FALSE) :
       /\ BeforeAgentStartEffect(h)
       /\ last_hook' = Logged("BeforeAgentStart", h)
       /\ rich' = Spent(FALSE, h)

\* --- top of the loop: the iteration cap, Iteration and Thinking ---------

\* Variant: the cap is compared one iteration too late.
ExceededMaxIterationsLate(n) == n > MAX_ITERATIONS + 1

\* if iterations > MAX_ITERATIONS
ExceededMaxIterations(n) == n > MAX_ITERATIONS

\* Variant: Thinking is emitted before Iteration.
IterationEventsSwapped(evs, n) == Emit(Emit(evs, EvThinking), EvIteration(n))

\* The events at the start of an iteration.
IterationEvents(evs, n) == Emit(Emit(evs, EvIteration(n)), EvThinking)

LoopTop ==
  /\ pc = "LoopTop"
  /\ iterations' = iterations + 1
  /\ IF ExceededMaxIterations(iterations')
     THEN /\ ret' = ErrOther(EXCEEDED_MAX_ITERATIONS)
          /\ pc' = "Returned"
          /\ UNCHANGED events
     ELSE /\ events' = IterationEvents(events, iterations')
          /\ pc' = "MessageSending"
          /\ UNCHANGED ret
  /\ UNCHANGED <<inputs, messages, total_tool_calls, total_input_tokens,
                 total_output_tokens, response, tc_index, effective_args, exec_result,
                 result, provider_calls, executed, responses,
                 provider_failure, rich>>
  /\ last_hook' = NoHook

\* --- MessageSending hook ------------------------------------------------

\* Variant: a Block of MessageSending is ignored.
MessageSendingNeverBlocks(h) == FALSE

\* The match on the MessageSending dispatch: whether it ends the turn.
MessageSendingBlocks(h) == h.tag = "Block"

MessageSendingEffect(h) ==
  /\ IF MessageSendingBlocks(h)
     THEN /\ ret' = ErrOther(MESSAGE_SENDING_BLOCKED \o h.reason)
          /\ pc' = "Returned"
     ELSE /\ pc' = "Complete"
          /\ UNCHANGED ret
  /\ UNCHANGED <<inputs, messages, iterations, total_tool_calls, total_input_tokens,
                 total_output_tokens, response, tc_index, effective_args, exec_result,
                 result, events, provider_calls, executed, responses, provider_failure>>

MessageSending ==
  /\ pc = "MessageSending"
  /\ \E h \in DispatchResults(FALSE) :
       /\ MessageSendingEffect(h)
       /\ last_hook' = Logged("MessageSending", h)
       /\ rich' = Spent(FALSE, h)

\* --- provider.complete --------------------------------------------------

\* Variant: the message is classified without lowercasing it.
ProviderErrorCaseSensitive(msg) ==
  IF \/ \E i \in 1..Len(CONTEXT_WINDOW_PATTERNS) : contains(msg, CONTEXT_WINDOW_PATTERNS[i])
     \/ contains(msg, STATUS_413)
     \/ contains(msg, HTTP_413)
  THEN ErrContextWindowExceeded(msg)
  ELSE ErrOther(msg)

\* The error the loop returns when provider.complete fails with msg.
ProviderError(msg) ==
  IF is_context_window_error(msg) THEN ErrContextWindowExceeded(msg) ELSE ErrOther(msg)

\* Variant: the text is parsed for every provider.
RescueAnyProvider(r, uuid) ==
  LET parsed == parse_tool_call_from_text(r.text.v, uuid)
  IN IF r.tool_calls = <<>> /\ r.text.some /\ parsed.some
     THEN [r EXCEPT !.text = parsed.v.remaining, !.tool_calls = <<parsed.v.tc>>]
     ELSE r

\* For providers without native tool calling, try parsing tool calls from text.
Rescue(r, uuid) ==
  LET parsed == parse_tool_call_from_text(r.text.v, uuid)
  IN IF ~native_tools /\ r.tool_calls = <<>> /\ r.text.some /\ parsed.some
     THEN [r EXCEPT !.text = parsed.v.remaining, !.tool_calls = <<parsed.v.tc>>]
     ELSE r

\* Whether response r is within the bounds.  Of the responses with tool
\* calls, those of a provider without native tools carry one call, and those
\* with a text at most two.
WithinBounds(r) ==
  /\ \/ r = PlainFinal
     \/ iterations <= 1
     \/ (r = PlainResponse /\ rich = 0 /\ \A i \in DOMAIN responses : responses[i] = PlainResponse)
  /\ Len(r.tool_calls) > 1 => native_tools
  /\ Len(r.tool_calls) > 2 => ~r.text.some

Complete ==
  /\ pc = "Complete"
  /\ provider_calls' = provider_calls + 1
  /\ \/ \E msg \in ProviderErrors :
          /\ ret' = ProviderError(msg)
          /\ provider_failure' = Some(msg)
          /\ pc' = "Returned"
          /\ UNCHANGED <<response, events>>
     \/ \E r \in CompletionResponses :
          /\ WithinBounds(r)
          /\ response' = r
          /\ events' = Emit(events, EvThinkingDone)
          /\ pc' = "MessageSent"
          /\ UNCHANGED <<ret, provider_failure>>
  /\ UNCHANGED <<inputs, messages, iterations, total_tool_calls, total_input_tokens,
                 total_output_tokens, tc_index, effective_args, exec_result, result,
                 executed, responses, rich>>
  /\ last_hook' = NoHook

\* --- MessageSent hook, usage, rescue, and the branch on tool calls -------

MessageSentEffect(h, uuid) ==
  LET r == Rescue(response, uuid)
  IN /\ total_input_tokens' = saturating_add(total_input_tokens, response.usage.input_tokens)
     /\ total_output_tokens' = saturating_add(total_output_tokens, response.usage.output_tokens)
     /\ response' = r
     /\ responses' = Append(responses, r)
     /\ IF r.tool_calls = <<>>
        THEN /\ pc' = "AgentEnd"
             /\ UNCHANGED <<messages, events, tc_index>>
        ELSE /\ messages' = Append(messages, AssistantMessage(r))
             /\ events' = (IF r.text.some THEN Emit(events, EvThinkingText(r.text.v)) ELSE events)
             /\ tc_index' = 1
             /\ pc' = "ToolCall"
     /\ UNCHANGED <<inputs, iterations, total_tool_calls, effective_args, exec_result,
                    result, ret, provider_calls, executed, provider_failure>>

MessageSent ==
  /\ pc = "MessageSent"
  /\ \E h \in DispatchResults(FALSE), uuid \in Uuids :
       /\ MessageSentEffect(h, uuid)
       /\ last_hook' = Logged("MessageSent", h)
       /\ rich' = Spent(FALSE, h)

\* --- AgentEnd hook and the successful return -----------------------------

\* Variant: iterations are counted from zero.
FinalResultZeroBased ==
  OkResult(IF response.text.some THEN response.text.v ELSE <<>>,
           iterations - 1, total_tool_calls, total_input_tokens, total_output_tokens)

\* Variant: only the calls that reached tool.execute are counted.
FinalResultExecutedOnly ==
  OkResult(IF response.text.some THEN response.text.v ELSE <<>>,
           iterations, Len(executed), total_input_tokens, total_output_tokens)

\* The AgentRunResult of a turn that ends with a response without tool calls.
FinalResult ==
  OkResult(IF response.text.some THEN response.text.v ELSE <<>>,
           iterations, total_tool_calls, total_input_tokens, total_output_tokens)

AgentEndEffect(h) ==
  /\ ret' = FinalResult
  /\ pc' = "Returned"
  /\ UNCHANGED <<inputs, messages, iterations, total_tool_calls, total_input_tokens,
                 total_output_tokens, response, tc_index, effective_args, exec_result,
                 result, events, provider_calls, executed, responses, provider_failure>>

AgentEnd ==
  /\ pc = "AgentEnd"
  /\ \E h \in DispatchResults(FALSE) :
       /\ AgentEndEffect(h)
       /\ last_hook' = Logged("AgentEnd", h)
       /\ rich' = Spent(FALSE, h)

\* --- the loop over the tool calls of the response ------------------------

\* for tc in &response.tool_calls: the next call, or back to the loop top.
ToolCallNext ==
  /\ pc = "ToolCall"
  /\ IF tc_index > Len(response.tool_calls)
     THEN /\ pc' = "LoopTop"
          /\ tc_index' = 0
          /\ response' = Unset
          /\ UNCHANGED <<total_tool_calls, events, effective_args>>
     ELSE /\ total_tool_calls' = total_tool_calls + 1
          /\ events' = Emit(events, EvToolCallStart(response.tool_calls[tc_index]))
          /\ effective_args' = response.tool_calls[tc_index].arguments
          /\ pc' = "BeforeToolCall"
          /\ UNCHANGED <<tc_index, response>>
  /\ UNCHANGED <<inputs, messages, iterations, total_input_tokens, total_output_tokens,
                 exec_result, result, ret, provider_calls, executed, responses,
                 provider_failure, rich>>
  /\ last_hook' = NoHook

\* Variant: a Block is not acted on.
BeforeToolCallNeverBlocks(h) == FALSE

\* The match on the BeforeToolCall dispatch: whether the call is skipped.
BeforeToolCallBlocks(h) == h.tag = "Block"

\* The arguments the call goes on with.
BeforeToolCallArgs(h, args) == IF h.tag = "ModifyPayload" THEN h.v ELSE args

\* Variant: a blocked call is skipped without a tool message.
BeforeToolCallEffectDropsMessage(h) ==
  LET tc == response.tool_calls[tc_index]
  IN /\ IF BeforeToolCallBlocks(h)
        THEN /\ events' = Emit(events, EvToolCallEnd(tc, FALSE, Some(h.reason), NoneV))
             /\ tc_index' = tc_index + 1
             /\ effective_args' = Unset
             /\ pc' = "ToolCall"
             /\ UNCHANGED messages
        ELSE /\ effective_args' = BeforeToolCallArgs(h, effective_args)
             /\ pc' = "Execute"
             /\ UNCHANGED <<events, messages, tc_index>>
     /\ UNCHANGED <<inputs, iterations, total_tool_calls, total_input_tokens,
                    total_output_tokens, response, exec_result, result, ret,
                    provider_calls, executed, responses, provider_failure>>

BeforeToolCallEffect(h) ==
  LET tc == response.tool_calls[tc_index]
  IN /\ IF BeforeToolCallBlocks(h)
        THEN /\ events' = Emit(events, EvToolCallEnd(tc, FALSE, Some(h.reason), NoneV))
             /\ messages' = Append(messages,
                  ToolMessage(tc.id,
                    to_string(Obj1(K_error, JStr(BLOCKED_BY_HOOK \o h.reason)))))
             /\ tc_index' = tc_index + 1
             /\ effective_args' = Unset
             /\ pc' = "ToolCall"
        ELSE /\ effective_args' = BeforeToolCallArgs(h, effective_args)
             /\ pc' = "Execute"
             /\ UNCHANGED <<events, messages, tc_index>>
     /\ UNCHANGED <<inputs, iterations, total_tool_calls, total_input_tokens,
                    total_output_tokens, response, exec_result, result, ret,
                    provider_calls, executed, responses, provider_failure>>

\* What the dispatch at BeforeToolCall may return.  Its payload becomes the
\* arguments of the tool, whose shape decides whether the context is merged:
\* a replacement that is not a JSON object is followed here too.
BeforeToolCallResults ==
  DispatchResults(TRUE) \cup
    { h \in {HookModifyPayload(REDACTED_TEXT)} : hook_registry /\ RichAllowed }

BeforeToolCall ==
  /\ pc = "BeforeToolCall"
  /\ \E h \in BeforeToolCallResults :
       /\ BeforeToolCallEffect(h)
       /\ last_hook' = Logged("BeforeToolCall", h)
       /\ rich' = Spent(TRUE, h)

\* Variant: a key of the arguments is kept when the context has it too.
merge_tool_context_args_win(args, ctx) ==
  IF ctx.some /\ args.t = "Object" /\ ctx.v.t = "Object"
  THEN JObj([k \in (DOMAIN args.m) \cup (DOMAIN ctx.v.m) |->
               IF k \in DOMAIN args.m THEN args.m[k] ELSE ctx.v.m[k]])
  ELSE args

\* Merge tool_context (e.g. _session_key) into the tool call params.
merge_tool_context(args, ctx) ==
  IF ctx.some /\ args.t = "Object" /\ ctx.v.t = "Object"
  THEN JObj([k \in (DOMAIN args.m) \cup (DOMAIN ctx.v.m) |->
               IF k \in DOMAIN ctx.v.m THEN ctx.v.m[k] ELSE args.m[k]])
  ELSE args

\* Tool lookup and tool.execute, with the ToolCallEnd event.
Execute ==
  LET tc == response.tool_calls[tc_index]
  IN /\ pc = "Execute"
     /\ IF tools_get(tc.name)
        THEN \E out \in { o \in ToolResults : o = PlainToolResult \/ RichAllowed } :
               /\ executed' = Append(executed,
                    [id |-> tc.id, name |-> tc.name,
                     args |-> merge_tool_context(effective_args, tool_context)])
               /\ exec_result' = out
               /\ events' = Emit(events,
                    IF out.ok THEN EvToolCallEnd(tc, TRUE, NoneV, Some(out.val))
                    ELSE EvToolCallEnd(tc, FALSE, Some(out.err), NoneV))
               /\ rich' = (IF out = PlainToolResult THEN rich ELSE rich + 1)
               /\ pc' = "AfterToolCall"
               /\ UNCHANGED result
        ELSE /\ events' = Emit(events,
                  EvToolCallEnd(tc, FALSE, Some(UNKNOWN_TOOL \o tc.name), NoneV))
             /\ result' = Obj1(K_error, JStr(UNKNOWN_TOOL \o tc.name))
             /\ pc' = "ToolResultPersist"
             /\ UNCHANGED <<executed, exec_result, rich>>
     /\ effective_args' = Unset
     /\ UNCHANGED <<inputs, messages, iterations, total_tool_calls, total_input_tokens,
                    total_output_tokens, response, tc_index, ret, provider_calls,
                    responses, provider_failure>>
     /\ last_hook' = NoHook

\* Variant: a failed execution is wrapped like a successful one.
EnvelopeErrAsResult(out) ==
  IF out.ok THEN Obj1(K_result, out.val) ELSE Obj1(K_result, JStr(out.err))

\* The JSON envelope of what tool.execute returned.
Envelope(out) ==
  IF out.ok THEN Obj1(K_result, out.val) ELSE Obj1(K_error, JStr(out.err))

AfterToolCallEffect(h) ==
  /\ result' = Envelope(exec_result)
  /\ exec_result' = Unset
  /\ pc' = "ToolResultPersist"
  /\ UNCHANGED <<inputs, messages, iterations, total_tool_calls, total_input_tokens,
                 total_output_tokens, response, tc_index, effective_args, ret, events,
                 provider_calls, executed, responses, provider_failure>>

AfterToolCall ==
  /\ pc = "AfterToolCall"
  /\ \E h \in DispatchResults(FALSE) :
       /\ AfterToolCallEffect(h)
       /\ last_hook' = Logged("AfterToolCall", h)
       /\ rich' = Spent(FALSE, h)

\* Variant: a failed dispatch replaces the envelope like a Block does.
PersistedResultErrReplaces(h, res) ==
  IF h.tag = "ModifyPayload" THEN h.v
  ELSE IF h.tag = "Block" THEN Obj1(K_error, JStr(RESULT_BLOCKED \o h.reason))
  ELSE IF h.tag = "Err" THEN Obj1(K_error, JStr(RESULT_BLOCKED))
  ELSE res

\* The match on the ToolResultPersist dispatch: the envelope that is kept.
PersistedResult(h, res) ==
  IF h.tag = "ModifyPayload" THEN h.v
  ELSE IF h.tag = "Block" THEN Obj1(K_error, JStr(RESULT_BLOCKED \o h.reason))
  ELSE res

\* Variant: the serialized envelope is appended as it is.
ToolResultPersistEffectUnsanitized(h) ==
  LET tc == response.tool_calls[tc_index]
  IN /\ messages' = Append(messages, ToolMessage(tc.id, to_string(PersistedResult(h, result))))
     /\ tc_index' = tc_index + 1
     /\ result' = Unset
     /\ pc' = "ToolCall"
     /\ UNCHANGED <<inputs, iterations, total_tool_calls, total_input_tokens,
                    total_output_tokens, response, effective_args, exec_result, ret,
                    events, provider_calls, executed, responses, provider_failure>>

ToolResultPersistEffect(h) ==
  LET tc == response.tool_calls[tc_index]
      tool_result_str ==
        sanitize_tool_result(to_string(PersistedResult(h, result)), max_tool_result_bytes)
  IN /\ messages' = Append(messages, ToolMessage(tc.id, tool_result_str))
     /\ tc_index' = tc_index + 1
     /\ result' = Unset
     /\ pc' = "ToolCall"
     /\ UNCHANGED <<inputs, iterations, total_tool_calls, total_input_tokens,
                    total_output_tokens, response, effective_args, exec_result, ret,
                    events, provider_calls, executed, responses, provider_failure>>

ToolResultPersist ==
  /\ pc = "ToolResultPersist"
  /\ \E h \in DispatchResults(TRUE) :
       /\ ToolResultPersistEffect(h)
       /\ last_hook' = Logged("ToolResultPersist", h)
       /\ rich' = Spent(TRUE, h)

Next ==
  \/ BeforeAgentStart
  \/ LoopTop
  \/ MessageSending
  \/ Complete
  \/ MessageSent
  \/ AgentEnd
  \/ ToolCallNext
  \/ BeforeToolCall
  \/ Execute
  \/ AfterToolCall
  \/ ToolResultPersist

Spec == Init /\ [][Next]_vars

\* ---------------------------------------------------------------------
\* Properties of the agent loop
\* ---------------------------------------------------------------------

\* Number of messages the list holds before the first iteration; the
\* messages after them are the ones appended during the turn.
TurnStart == Len(InitialMessages)

IsPrefix(a, b) == Len(a) <= Len(b) /\ SubSeq(b, 1, Len(a)) = a

\* The turn is between two iterations or over.
BetweenIterations ==
  pc \in {"LoopTop", "MessageSending", "Complete", "MessageSent", "AgentEnd", "Returned"}

\* C1: every assistant message appended during the turn is followed, in
\* order, by one tool-role message per tool call with that call's id; the
\* replies are all there once the iteration is over, and the message after
\* them, if any, is the next assistant message.
C1_ToolMessagesFollowCalls ==
  \A i \in (TurnStart + 1)..Len(messages) :
    /\ messages[i].role \in {"assistant", "tool"}
    /\ messages[i].role = "assistant" =>
         LET calls == messages[i].tool_calls
             n == Len(calls)
         IN /\ \A j \in 1..n :
                 i + j <= Len(messages) =>
                   /\ messages[i + j].role = "tool"
                   /\ messages[i + j].tool_call_id = calls[j].id
            /\ (i + n < Len(messages) => messages[i + n + 1].role = "assistant")
            /\ (BetweenIterations => i + n <= Len(messages))

\* A finished turn in which a response had two tool calls with different
\* ids, one of them blocked by a hook, and both were answered.
C1_Witness ==
  /\ pc = "Returned"
  /\ \E i \in (TurnStart + 1)..Len(messages) :
       /\ messages[i].role = "assistant"
       /\ Len(messages[i].tool_calls) = 2
       /\ messages[i].tool_calls[1].id # messages[i].tool_calls[2].id
       /\ i + 2 <= Len(messages)
       /\ \E j \in 1..2 :
            messages[i + j].content = to_string(Obj1(K_error, JStr(BLOCKED_BY_HOOK \o BLOCK_REASON)))

\* C2: provider.complete is called at most MAX_ITERATIONS times in a turn,
\* and when the iteration counter passes MAX_ITERATIONS the turn has returned
\* Other("agent loop exceeded max iterations") after exactly MAX_ITERATIONS
\* provider calls.
C2_IterationCap ==
  /\ provider_calls <= MAX_ITERATIONS
  /\ iterations > MAX_ITERATIONS =>
       /\ pc = "Returned"
       /\ ret = ErrOther(EXCEEDED_MAX_ITERATIONS)
       /\ provider_calls = MAX_ITERATIONS

\* The turn that ran into the cap.
C2_Witness ==
  /\ ret = ErrOther(EXCEEDED_MAX_ITERATIONS)
  /\ iterations = MAX_ITERATIONS + 1
  /\ provider_calls = MAX_ITERATIONS

\* The kind of an event and the id, number or text it carries.
Shape(ev, key) == [ev |-> ev, key |-> key]

ShapeOf(e) ==
  IF e.ev = "Iteration" THEN Shape(e.ev, fmt_usize(e.n))
  ELSE IF e.ev \in {"ToolCallStart", "ToolCallEnd"} THEN Shape(e.ev, e.id)
  ELSE IF e.ev = "ThinkingText" THEN Shape(e.ev, e.text)
  ELSE Shape(e.ev, <<>>)

\* ToolCallStart and ToolCallEnd of each call, in the order of the calls.
RECURSIVE CallShapes(_)
CallShapes(calls) ==
  IF calls = <<>> THEN <<>>
  ELSE <<Shape("ToolCallStart", calls[1].id), Shape("ToolCallEnd", calls[1].id)>>
         \o CallShapes(Tail(calls))

IterationHead(n) ==
  <<Shape("Iteration", fmt_usize(n)), Shape("Thinking", <<>>), Shape("ThinkingDone", <<>>)>>

\* The events of the iterations n.. whose responses are rs, as the order of
\* section 4.1 lists them.
RECURSIVE ExpectedEvents(_, _)
ExpectedEvents(rs, n) ==
  IF rs = <<>> THEN <<>>
  ELSE IterationHead(n)
         \o (IF rs[1].tool_calls # <<>> /\ rs[1].text.some
             THEN <<Shape("ThinkingText", rs[1].text.v)>> ELSE <<>>)
         \o CallShapes(rs[1].tool_calls)
         \o ExpectedEvents(Tail(rs), n + 1)

\* C3: the events reach the sink in the order Iteration(n), Thinking,
\* ThinkingDone, ThinkingText if the response has text alongside tool calls,
\* then ToolCallStart and ToolCallEnd of each tool call in the order of the
\* response; at every point they are a prefix of that sequence, and all of
\* them have arrived when an iteration or the turn is over.
C3_EventOrder ==
  on_event =>
    LET got == [i \in 1..Len(events) |-> ShapeOf(events[i])]
        full == ExpectedEvents(responses, 1)
        head == IterationHead(Len(responses) + 1)
    IN /\ IsPrefix(got, full \o head)
       /\ (pc \in {"LoopTop", "AgentEnd"} => got = full)
       /\ (pc = "Returned" /\ ret.status = "Ok" => got = full)
       /\ (pc \in {"MessageSending", "Complete"} => got = full \o SubSeq(head, 1, 2))
       /\ (pc = "MessageSent" => got = full \o head)

\* A turn with a sink that ended well after a response with text and two
\* tool calls.
C3_Witness ==
  /\ on_event
  /\ pc = "Returned"
  /\ ret.status = "Ok"
  /\ \E i \in 1..Len(responses) :
       Len(responses[i].tool_calls) = 2 /\ responses[i].text.some

\* C4: the iterations of a successful result are the number of
\* provider.complete calls of the turn.
C4_IterationsAreProviderCalls ==
  ret.status = "Ok" => ret.iterations = provider_calls

\* A successful turn of more than one iteration.
C4_Witness ==
  ret.status = "Ok" /\ ret.iterations >= 2 /\ provider_calls >= 2

RECURSIVE SumToolCalls(_)
SumToolCalls(rs) ==
  IF rs = <<>> THEN 0 ELSE Len(rs[1].tool_calls) + SumToolCalls(Tail(rs))

\* C5: tool_calls_made of a successful result is the number of tool calls of
\* the responses of the turn (after the rescue of a text-embedded call),
\* whatever became of each call.
C5_ToolCallsMadeIsSum ==
  ret.status = "Ok" => ret.tool_calls_made = SumToolCalls(responses)

\* A successful turn with two tool calls of which one was not executed
\* (blocked, or an unknown tool).
C5_Witness ==
  ret.status = "Ok" /\ ret.tool_calls_made = 2 /\ Len(executed) = 1

\* C6: a failed turn returns ContextWindowExceeded exactly when
\* provider.complete failed with a message that is_context_window_error
\* accepts, and then with that message; every other failure (another
\* provider error, a hook Block, the iteration cap) returns Other.
C6_ContextWindowExceededIffClassified ==
  /\ provider_failure.some => ret.status = "Err"
  /\ ret.status = "Err" =>
       /\ ret.variant \in {"ContextWindowExceeded", "Other"}
       /\ ret.variant = "ContextWindowExceeded" <=>
            (provider_failure.some /\ is_context_window_error(provider_failure.v))
       /\ provider_failure.some => ret.msg = provider_failure.v
       /\ ~provider_failure.some =>
            \/ ret.msg = EXCEEDED_MAX_ITERATIONS
            \/ last_hook.tag = "Block"

\* The provider failed with a message that matches only once lowercased.
C6_Witness ==
  /\ ret.status = "Err"
  /\ ret.variant = "ContextWindowExceeded"
  /\ provider_failure.some
  /\ ~contains(provider_failure.v, HTTP_413)
  /\ contains(to_lowercase(provider_failure.v), HTTP_413)

\* The first bytes and the last bytes of a serialized {"error": "..."} object.
ERROR_OBJECT_PREFIX == Take(to_string(Obj1(K_error, JStr(<<>>))), 10)

ERROR_OBJECT_SUFFIX == Drop(to_string(Obj1(K_error, JStr(<<>>))), 10)

\* Whether a message content is a serialized {"error": "..."} object.
IsErrorObjectText(s) ==
  /\ Len(s) >= Len(ERROR_OBJECT_PREFIX) + Len(ERROR_OBJECT_SUFFIX)
  /\ Take(s, Len(ERROR_OBJECT_PREFIX)) = ERROR_OBJECT_PREFIX
  /\ Drop(s, Len(s) - Len(ERROR_OBJECT_SUFFIX)) = ERROR_OBJECT_SUFFIX

\* The current tool call failed in tool.execute or names an unknown tool.
CallFailed ==
  \/ pc = "AfterToolCall" /\ ~exec_result.ok
  \/ pc = "Execute" /\ ~tools_get(response.tool_calls[tc_index].name)

\* The envelope that waits for ToolResultPersist is the one of a failed call.
FailureEnvelope == pc = "ToolResultPersist" /\ K_error \in DOMAIN result.m

C8_DispatchErrIsContinue ==
  [][ (hook_registry /\ last_hook'.tag = "Err") =>
        /\ last_hook'.point = pc
        /\ ret'.status # "Err"
        /\ pc = "BeforeAgentStart" => BeforeAgentStartEffect(HookContinue)
        /\ pc = "MessageSending" => MessageSendingEffect(HookContinue)
        /\ pc = "MessageSent" => \E uuid \in Uuids : MessageSentEffect(HookContinue, uuid)
        /\ pc = "AgentEnd" => AgentEndEffect(HookContinue)
        /\ pc = "BeforeToolCall" => BeforeToolCallEffect(HookContinue)
        /\ pc = "AfterToolCall" => AfterToolCallEffect(HookContinue)
        /\ pc = "ToolResultPersist" => ToolResultPersistEffect(HookContinue)
        /\ pc \in {"BeforeAgentStart", "MessageSending", "MessageSent", "AgentEnd",
                   "BeforeToolCall", "AfterToolCall", "ToolResultPersist"} ]_vars

\* The ToolResultPersist dispatch failed and the call was answered with the
\* tool's own result.
C8_Witness ==
  /\ last_hook = [point |-> "ToolResultPersist", tag |-> "Err"]
  /\ pc = "ToolCall"
  /\ messages[Len(messages)].role = "tool"
  /\ messages[Len(messages)].content = to_string(Obj1(K_result, JStr(<<"h", "i">>)))

\* C9: after a Block of BeforeAgentStart the turn has returned Other with a
\* message that contains "agent start blocked by hook: <reason>", and
\* provider.complete was not called.
C9_AgentStartBlock ==
  last_hook = [point |-> "BeforeAgentStart", tag |-> "Block"] =>
    /\ pc = "Returned"
    /\ ret.status = "Err"
    /\ ret.variant = "Other"
    /\ contains(ret.msg, AGENT_START_BLOCKED \o BLOCK_REASON)
    /\ provider_calls = 0
    /\ responses = <<>>
    /\ executed = <<>>

\* The turn that BeforeAgentStart blocked.
C9_Witness ==
  /\ last_hook = [point |-> "BeforeAgentStart", tag |-> "Block"]
  /\ pc = "Returned"
  /\ ret.status = "Err"

\* C10 as stated: after a Block of MessageSending the turn has failed and
\* neither a provider call nor a tool execution happened in the turn.
C10_Original ==
  last_hook = [point |-> "MessageSending", tag |-> "Block"] =>
    /\ ret.status = "Err"
    /\ provider_calls = 0
    /\ executed = <<>>

\* C10: MessageSending is dispatched in every iteration.  After a Block in
\* iteration n the turn has returned Other("message sending blocked by hook:
\* <reason>") without the n-th provider call: exactly n - 1 provider calls
\* were made, all in earlier iterations, and in the first iteration neither a
\* provider call nor a tool execution came before the failure.
C10_MessageSendingBlock ==
  last_hook = [point |-> "MessageSending", tag |-> "Block"] =>
    /\ pc = "Returned"
    /\ ret = ErrOther(MESSAGE_SENDING_BLOCKED \o BLOCK_REASON)
    /\ provider_calls = iterations - 1
    /\ Len(responses) = iterations - 1
    /\ iterations = 1 => (provider_calls = 0 /\ executed = <<>>)

\* MessageSending blocked the second iteration, after a provider call and
\* a tool execution in the first.
C10_Witness ==
  /\ last_hook = [point |-> "MessageSending", tag |-> "Block"]
  /\ pc = "Returned"
  /\ iterations = 2
  /\ provider_calls = 1
  /\ Len(executed) >= 1


\* ---------------------------------------------------------------------
\* The chat service: LiveChatService::send, ::abort, run_with_tools and
\* run_streaming
\* ---------------------------------------------------------------------

\* chat.send calls received.
MaxSends == 1

\* StreamEvent::Delta events of all streams.
MaxDeltas == 1

\* RunnerEvents the agent loop passes to on_event in all runs.
MaxProgress == 1

\* Operations of the session store that fail.
MaxFaults == 1

\* chat.abort calls received.
MaxAborts == 1

MISSING_TEXT == <<"m", "i", "s", "s", "i", "n", "g", " ", "'", "t", "e", "x", "t", "'", " ", "p", "a", "r", "a", "m", "e", "t", "e", "r">>

NO_PROVIDERS == <<"n", "o", " ", "L", "L", "M", " ", "p", "r", "o", "v", "i", "d", "e", "r", "s", " ", "c", "o", "n", "f", "i", "g", "u", "r", "e", "d">>

\* format!("{:?}", available) of the model ids
debug_ids(ids) ==
  LET RECURSIVE items(_)
      items(k) ==
        IF k > Len(ids) THEN <<>>
        ELSE (IF k = 1 THEN <<>> ELSE <<",", " ">>) \o <<"\"">> \o ids[k] \o <<"\"">>
             \o items(k + 1)
  IN <<"[">> \o items(1) \o <<"]">>

\* format!("model '{}' not found. available: {:?}", id, available)
model_not_found(id, reg) ==
  <<"m", "o", "d", "e", "l", " ", "'">> \o id \o <<"'", " ", "n", "o", "t", " ", "f", "o", "u", "n", "d", ".", " ", "a", "v", "a", "i", "l", "a", "b", "l", "e", ":", " ">>
  \o debug_ids([k \in 1..Len(reg) |-> reg[k].id])

CONTEXT_WINDOW_EXCEEDED == <<"c", "o", "n", "t", "e", "x", "t", " ", "w", "i", "n", "d", "o", "w", " ", "e", "x", "c", "e", "e", "d", "e", "d", ":", " ">>

SESSION_MAIN == <<"m", "a", "i", "n">>

MODEL_ID == <<"m", "1">>

PROVIDER_NAME == <<"p", "1">>

\* The one provider that may be registered; it supports tool calling.
Provider == [id |-> MODEL_ID, name |-> PROVIDER_NAME, supports_tools |-> TRUE]

\* ProviderRegistry::get, ::first_with_tools and ::first
registry_get(reg, id) ==
  IF \E k \in 1..Len(reg) : reg[k].id = id
  THEN Some(reg[CHOOSE k \in 1..Len(reg) : reg[k].id = id])
  ELSE NoneV

first_with_tools(reg) ==
  IF \E k \in 1..Len(reg) : reg[k].supports_tools
  THEN Some(reg[CHOOSE k \in 1..Len(reg) :
                   reg[k].supports_tools /\ \A j \in 1..(k - 1) : ~reg[j].supports_tools])
  ELSE NoneV

first(reg) == IF reg = <<>> THEN NoneV ELSE Some(reg[1])

\* The params of a chat.send: text, model and stream_only may be missing.
ChatParams ==
  [text : {NoneV, Some(<<"h", "i">>)},
   model : {NoneV, Some(MODEL_ID), Some(<<"z">>)},
   stream_only : {NoneV, Some(TRUE)}]

\* stream_only: explicitly requested, or no tools are registered.
StreamOnly(p) == (IF p.stream_only.some THEN p.stream_only.v ELSE FALSE) \/ ~has_tools

\* The provider a send runs on, or the error the send returns.
ResolveProvider(p) ==
  IF p.model.some
  THEN IF registry_get(providers, p.model.v).some
       THEN [ok |-> TRUE, val |-> registry_get(providers, p.model.v).v]
       ELSE [ok |-> FALSE, err |-> model_not_found(p.model.v, providers)]
  ELSE IF ~StreamOnly(p)
       THEN IF first_with_tools(providers).some
            THEN [ok |-> TRUE, val |-> first_with_tools(providers).v]
            ELSE [ok |-> FALSE, err |-> NO_PROVIDERS]
       ELSE IF first(providers).some
            THEN [ok |-> TRUE, val |-> first(providers).v]
            ELSE [ok |-> FALSE, err |-> NO_PROVIDERS]

UserMsg(text) == [role |-> "user", content |-> text]

AssistantMsg(out, provider) ==
  [role |-> "assistant", content |-> out.text, model |-> provider.id,
   provider |-> provider.name, inputTokens |-> out.input_tokens,
   outputTokens |-> out.output_tokens]

\* What a run hands back to the task: Some((text, input_tokens, output_tokens)).
RunOutcome(text, usage) ==
  Some([text |-> text, input_tokens |-> usage.input_tokens,
        output_tokens |-> usage.output_tokens])

\* parse_chat_error: the structured error of a message.
parse_chat_error(msg, provider_name) == [parsed_from |-> msg, provider |-> provider_name]

\* Display of AgentRunError.
error_to_string(e) ==
  IF e.variant = "ContextWindowExceeded" THEN CONTEXT_WINDOW_EXCEEDED \o e.msg ELSE e.msg

\* The chat frames.
Frame(i, state, rest) ==
  [event |-> "chat", runId |-> i, sessionKey |-> SESSION_MAIN, state |-> state,
   rest |-> rest]

\* Variant: the message is sent as it is, unparsed.
ErrorFrameUnparsed(i, msg, provider) ==
  Frame(i, "error", [message |-> msg])

\* The frame of the error that ends a run.
ErrorFrame(i, msg, provider) ==
  Frame(i, "error", [error |-> parse_chat_error(msg, Some(provider.name))])

FinalFrameOfLoop(i, r, provider) ==
  Frame(i, "final",
        [text |-> r.text, iterations |-> Some(r.iterations),
         toolCallsMade |-> Some(r.tool_calls_made), model |-> provider.id,
         provider |-> provider.name, inputTokens |-> r.usage.input_tokens,
         outputTokens |-> r.usage.output_tokens])

FinalFrameOfStream(i, text, usage, provider) ==
  Frame(i, "final",
        [text |-> text, iterations |-> NoneV, toolCallsMade |-> NoneV,
         model |-> provider.id, provider |-> provider.name,
         inputTokens |-> usage.input_tokens, outputTokens |-> usage.output_tokens])

\* The frame on_event broadcasts for a RunnerEvent.
EventFrame(i, e) ==
  IF e.ev = "Thinking" THEN Frame(i, "thinking", [none |-> TRUE])
  ELSE IF e.ev = "ThinkingDone" THEN Frame(i, "thinking_done", [none |-> TRUE])
  ELSE IF e.ev = "Iteration" THEN Frame(i, "iteration", [iteration |-> e.n])
  ELSE IF e.ev = "ThinkingText" THEN Frame(i, "thinking_text", [text |-> e.text])
  ELSE IF e.ev = "ToolCallStart"
  THEN Frame(i, "tool_call_start",
             [toolCallId |-> e.id, toolName |-> e.name, arguments |-> e.arguments])
  ELSE Frame(i, "tool_call_end",
             [toolCallId |-> e.id, toolName |-> e.name, success |-> e.success,
              error |-> IF e.error.some
                        THEN Some(parse_chat_error(e.error.v, NoneV)) ELSE NoneV,
              result |-> e.result])

\* RunnerEvents a run of the agent loop may emit.
ProgressEvents ==
  { EvToolCallEnd(PlainCall, FALSE, Some(<<"b", "o", "o", "m">>), NoneV) }

\* What run_agent_loop may return to run_with_tools.
LoopResults ==
  { OkResult(<<"o", "k">>, 1, 0, 10, 5), ErrOther(EXCEEDED_MAX_ITERATIONS) }
  \cup { ProviderError(msg) : msg \in {<<"H", "T", "T", "P", " ", "4", "1", "3">>} }

\* What the provider's stream may yield next; End is the end of the stream.
StreamEvents ==
  { [ev |-> "Delta", delta |-> <<"a">>],
    [ev |-> "Done", usage |-> [input_tokens |-> 10, output_tokens |-> 5]],
    [ev |-> "Error", msg |-> <<"r", "a", "t", "e", " ", "l", "i", "m", "i", "t">>],
    [ev |-> "End"] }

\* StreamEvent::Error(msg), as the error that ended a run.
StreamError(msg) == [status |-> "Err", variant |-> "Stream", msg |-> msg]

\* A chat.send that has not spawned its task.  run_error keeps the error
\* that ended the run and before the session log as the send found it, for
\* the record.
NewSend(text, stream_only, provider) ==
  [c_pc |-> "read", t_pc |-> "none", text |-> text, stream_only |-> stream_only,
   provider |-> provider, history |-> <<>>, accumulated |-> <<>>, deltas |-> 0,
   progress |-> 0, spawned |-> <<>>, outcome |-> NoneV, run_error |-> NoneV,
   send_result |-> NoneV, before |-> <<>>]

\* A chat.send that returned an error before it touched the session.
FailedSend(err) ==
  [NewSend(<<>>, FALSE, Unset) EXCEPT !.c_pc = "failed",
                                      !.send_result = Some([ok |-> FALSE, err |-> err])]

\* SessionStore::append: the message becomes the last of the log, or the
\* store fails and the log stays as it is.
store_append(log, msg, ok) == IF ok THEN Append(log, msg) ELSE log

\* SessionStore::read and ::count
store_read(log, ok) == IF ok THEN [ok |-> TRUE, val |-> log] ELSE [ok |-> FALSE]

store_count(log, ok) == IF ok THEN [ok |-> TRUE, val |-> Len(log)] ELSE [ok |-> FALSE]

\* history.pop()
pop(h) == IF h = <<>> THEN h ELSE SubSeq(h, 1, Len(h) - 1)

\* No turn of the agent loop is followed on its own.
LoopParked ==
  /\ native_tools = FALSE
  /\ hook_registry = FALSE
  /\ on_event = FALSE
  /\ tool_context = NoneV
  /\ history = NoneV
  /\ max_tool_result_bytes = 0
  /\ pc = "Returned"
  /\ messages = <<>>
  /\ iterations = 0
  /\ total_tool_calls = 0
  /\ total_input_tokens = 0
  /\ total_output_tokens = 0
  /\ response = Unset
  /\ tc_index = 0
  /\ effective_args = Unset
  /\ exec_result = Unset
  /\ result = Unset
  /\ ret = Running
  /\ events = <<>>
  /\ provider_calls = 0
  /\ executed = <<>>
  /\ responses = <<>>
  /\ provider_failure = NoneV
  /\ last_hook = NoHook
  /\ rich = 0

ChatInit ==
  /\ GatewayIdle
  /\ LoopParked
  /\ RouterIdle
  /\ FailoverIdle
  /\ AppleIdle
  /\ LibraryIdle
  /\ has_tools \in BOOLEAN
  /\ providers \in {<<>>, <<Provider>>}
  /\ ChatIdle

Runs == 1..Len(chat)

\* Stream deltas and RunnerEvents seen so far, over all runs.
DeltasSeen ==
  LET RECURSIVE sum(_)
      sum(k) == IF k = 0 THEN 0 ELSE chat[k].deltas + sum(k - 1)
  IN sum(Len(chat))

ProgressSeen ==
  LET RECURSIVE sum(_)
      sum(k) == IF k = 0 THEN 0 ELSE chat[k].progress + sum(k - 1)
  IN sum(Len(chat))

\* Whether the next operation of the session store succeeds.
StoreAnswers == IF faults < MaxFaults THEN BOOLEAN ELSE {TRUE}

Counted(ok) == IF ok THEN faults ELSE faults + 1

\* broadcast: the frame reaches the clients after the frames sent before it.
broadcast(i, frame) == [frames EXCEPT ![i] = Append(@, frame)]

\* What the chat actions leave alone besides the fields they name.
ChatFixed ==
  UNCHANGED <<vars, has_tools, providers, sandbox_vars, library_vars, gateway_vars>>

\* chat.send up to the append of the user message: the params are
\* validated, the provider is resolved and the user message is appended.
\* A failed append is logged and the send goes on.
Send(p, append_ok) ==
  /\ LET i == Len(chat) + 1
         resolved == ResolveProvider(p)
     IN IF ~p.text.some
        THEN /\ chat' = Append(chat, FailedSend(MISSING_TEXT))
             /\ UNCHANGED <<session_store, appended_by, faults>>
        ELSE IF ~resolved.ok
        THEN /\ chat' = Append(chat, FailedSend(resolved.err))
             /\ UNCHANGED <<session_store, appended_by, faults>>
        ELSE /\ faults' = Counted(append_ok)
             /\ session_store' = store_append(session_store, UserMsg(p.text.v), append_ok)
             /\ appended_by' =
                  store_append(appended_by, [run |-> i, role |-> "user"], append_ok)
             /\ chat' = Append(chat, [NewSend(p.text.v, StreamOnly(p), resolved.val)
                                        EXCEPT !.before = session_store])
  /\ frames' = Append(frames, <<>>)
  /\ UNCHANGED <<active_runs, aborts>>
  /\ ChatFixed

\* chat.send, as long as sends are followed.
ChatSend(p, append_ok) ==
  /\ Len(chat) < MaxSends
  /\ Send(p, append_ok)

\* The history is read (an unreadable log reads as empty) and its last
\* message is dropped; the task is spawned.
ReadAndSpawn(i, read_ok) ==
  /\ chat[i].c_pc = "read"
  /\ LET read == store_read(session_store, read_ok)
         h == pop(IF read.ok THEN read.val ELSE <<>>)
     IN chat' = [chat EXCEPT ![i].history = h, ![i].c_pc = "insert", ![i].t_pc = "run"]
  /\ faults' = Counted(read_ok)
  /\ UNCHANGED <<session_store, appended_by, active_runs, frames, aborts>>
  /\ ChatFixed

\* The abort handle is stored and the send returns the run id.
InsertHandle(i) ==
  /\ chat[i].c_pc = "insert"
  /\ active_runs' = active_runs \cup {i}
  /\ chat' = [chat EXCEPT ![i].c_pc = "returned",
                          ![i].send_result = Some([ok |-> TRUE, runId |-> i])]
  /\ UNCHANGED <<session_store, appended_by, frames, faults, aborts>>
  /\ ChatFixed

\* run_streaming: one turn of the loop over the provider's stream.
StreamNext(i, e) ==
  /\ chat[i].t_pc = "run"
  /\ chat[i].stream_only
  /\ e.ev = "Delta" => DeltasSeen < MaxDeltas
  /\ IF e.ev = "Delta"
     THEN /\ chat' = [chat EXCEPT ![i].accumulated = @ \o e.delta, ![i].deltas = @ + 1]
          /\ frames' = broadcast(i, Frame(i, "delta", [text |-> e.delta]))
     ELSE IF e.ev = "Done"
     THEN /\ chat' = [chat EXCEPT ![i].outcome = RunOutcome(chat[i].accumulated, e.usage),
                                  ![i].t_pc = "persist"]
          /\ frames' = broadcast(i, FinalFrameOfStream(i, chat[i].accumulated, e.usage,
                                                        chat[i].provider))
     ELSE IF e.ev = "Error"
     THEN /\ chat' = [chat EXCEPT ![i].run_error = Some(StreamError(e.msg)),
                                  ![i].t_pc = "remove"]
          /\ frames' = broadcast(i, ErrorFrame(i, e.msg, chat[i].provider))
     ELSE /\ chat' = [chat EXCEPT ![i].t_pc = "remove"]
          /\ UNCHANGED frames
  /\ UNCHANGED <<session_store, appended_by, active_runs, faults, aborts>>
  /\ ChatFixed

\* run_with_tools: the agent loop passes an event to on_event, which
\* spawns the task that broadcasts its frame.
ToolsEvent(i, e) ==
  /\ chat[i].t_pc = "run"
  /\ ~chat[i].stream_only
  /\ ProgressSeen < MaxProgress
  /\ chat' = [chat EXCEPT ![i].progress = @ + 1,
                          ![i].spawned = Append(@, EventFrame(i, e))]
  /\ UNCHANGED <<session_store, appended_by, active_runs, frames, faults, aborts>>
  /\ ChatFixed

\* A task spawned by on_event broadcasts its frame.
BroadcastSpawned(i, k) ==
  /\ k \in 1..Len(chat[i].spawned)
  /\ frames' = broadcast(i, chat[i].spawned[k])
  /\ chat' = [chat EXCEPT ![i].spawned =
                 SubSeq(@, 1, k - 1) \o SubSeq(@, k + 1, Len(@))]
  /\ UNCHANGED <<session_store, appended_by, active_runs, faults, aborts>>
  /\ ChatFixed

\* run_with_tools: the agent loop returns.
ToolsReturn(i, r) ==
  /\ chat[i].t_pc = "run"
  /\ ~chat[i].stream_only
  /\ IF r.status = "Ok"
     THEN /\ chat' = [chat EXCEPT ![i].outcome = RunOutcome(r.text, r.usage),
                                  ![i].t_pc = "persist"]
          /\ frames' = broadcast(i, FinalFrameOfLoop(i, r, chat[i].provider))
     ELSE /\ chat' = [chat EXCEPT ![i].run_error = Some(r), ![i].t_pc = "remove"]
          /\ frames' = broadcast(i, ErrorFrame(i, error_to_string(r), chat[i].provider))
  /\ UNCHANGED <<session_store, appended_by, active_runs, faults, aborts>>
  /\ ChatFixed

\* The task appends the assistant message; a failed append is logged.  The
\* count of the log and the touch of the metadata entry that follow change
\* nothing that is followed here.
PersistAssistant(i, append_ok) ==
  /\ chat[i].t_pc = "persist"
  /\ session_store' =
       store_append(session_store, AssistantMsg(chat[i].outcome.v, chat[i].provider),
                    append_ok)
  /\ appended_by' = store_append(appended_by, [run |-> i, role |-> "assistant"], append_ok)
  /\ chat' = [chat EXCEPT ![i].t_pc = "remove"]
  /\ faults' = Counted(append_ok)
  /\ UNCHANGED <<active_runs, frames, aborts>>
  /\ ChatFixed

\* The task ends as finished ("done") or cancelled ("aborted"): its locals
\* are dropped with it.  The tasks it spawned live on.
Ended(r, how) ==
  [r EXCEPT !.t_pc = how, !.history = <<>>, !.accumulated = <<>>, !.outcome = NoneV,
            !.before = <<>>]

\* The task removes its run id from active_runs and ends.
RemoveHandle(i) ==
  /\ chat[i].t_pc = "remove"
  /\ active_runs' = active_runs \ {i}
  /\ chat' = [chat EXCEPT ![i] = Ended(@, "done")]
  /\ UNCHANGED <<session_store, appended_by, frames, faults, aborts>>
  /\ ChatFixed

\* chat.abort: the handle of the run is removed and aborted; the task
\* ends at the suspension point it is at.  Without a handle in the map
\* nothing happens.
Abort(i) ==
  /\ aborts < MaxAborts
  /\ aborts' = aborts + 1
  /\ i \in active_runs
  /\ active_runs' = active_runs \ {i}
  /\ chat' = [chat EXCEPT ![i] = IF @.t_pc = "done" THEN @ ELSE Ended(@, "aborted")]
  /\ UNCHANGED <<session_store, appended_by, frames, faults>>
  /\ ChatFixed

\* The steps of the sends that were called and of their tasks.
ChatWork ==
  \/ \E i \in Runs, ok \in StoreAnswers : ReadAndSpawn(i, ok)
  \/ \E i \in Runs : InsertHandle(i)
  \/ \E i \in Runs, e \in StreamEvents : StreamNext(i, e)
  \/ \E i \in Runs, e \in ProgressEvents : ToolsEvent(i, e)
  \/ \E i \in Runs, k \in 1..MaxProgress : BroadcastSpawned(i, k)
  \/ \E i \in Runs, r \in LoopResults : ToolsReturn(i, r)
  \/ \E i \in Runs, ok \in StoreAnswers : PersistAssistant(i, ok)
  \/ \E i \in Runs : RemoveHandle(i)
  \/ \E i \in Runs : Abort(i)

ChatNext ==
  \/ \E p \in ChatParams, ok \in StoreAnswers : ChatSend(p, ok)
  \/ ChatWork

ChatSpec == ChatInit /\ [][ChatNext]_<<vars, outside>>

\* Sends on the one session that are followed when sends run side by side.
MaxPairSends == 2

\* chat.send while another send may be under way.
PairSend(p, append_ok) ==
  /\ Len(chat) < MaxPairSends
  /\ Send(p, append_ok)

ChatPairNext ==
  \/ \E p \in ChatParams, ok \in StoreAnswers : PairSend(p, ok)
  \/ ChatWork

ChatPairSpec == ChatInit /\ [][ChatPairNext]_<<vars, outside>>


\* ---------------------------------------------------------------------
\* Claims about the chat service
\* ---------------------------------------------------------------------

\* Positions of the session log that hold a message appended by run i.
AppendedAt(i, role) ==
  { k \in 1..Len(appended_by) : appended_by[k] = [run |-> i, role |-> role] }

\* Run i broadcast a frame with this state.
Sent(i, state) == \E k \in 1..Len(frames[i]) : frames[i][k].state = state

\* The task of run i is over.
TaskOver(i) == chat[i].t_pc \in {"done", "aborted"}

\* What the log holds of a run whose task is over: its user message, and
\* after it one assistant message exactly when the run ended with a final
\* result; none when the run was aborted.
CommitOrAbort ==
  \A i \in Runs :
    TaskOver(i) =>
      /\ Cardinality(AppendedAt(i, "user")) = 1
      /\ Cardinality(AppendedAt(i, "assistant")) <= 1
      /\ \A a \in AppendedAt(i, "assistant") : \A u \in AppendedAt(i, "user") : u < a
      /\ AppendedAt(i, "assistant") # {} <=> Sent(i, "final")
      /\ chat[i].t_pc = "aborted" => AppendedAt(i, "assistant") = {}

\* C11: for every chat.send the session log is only ever appended to; the
\* user message is appended first and one assistant message is appended
\* after it if and only if the run ended with a final result; a run that
\* ends in error or is aborted appends no assistant message and removes no
\* persisted message.
C11_SessionLogCommitsOrAborts ==
  [][IsPrefix(session_store, session_store') /\ CommitOrAbort']_<<vars, outside>>


\* The message of the error that ended a run: the Display of the
\* AgentRunError, or the message of the StreamEvent::Error.
MessageOf(e) ==
  IF e.variant = "ContextWindowExceeded"
  THEN <<"c", "o", "n", "t", "e", "x", "t", " ", "w", "i", "n", "d", "o", "w", " ",
         "e", "x", "c", "e", "e", "d", "e", "d", ":", " ">> \o e.msg
  ELSE e.msg

\* C12: every error that ends a chat run, an agent-loop error or a stream
\* error, is broadcast as a `chat` event with state `error` that carries
\* the structured error parsed from the error's message.
C12_RunErrorIsBroadcast ==
  \A i \in Runs :
    chat[i].run_error.some =>
      \E k \in 1..Len(frames[i]) :
        /\ frames[i][k].event = "chat"
        /\ frames[i][k].runId = i
        /\ frames[i][k].state = "error"
        /\ frames[i][k].rest =
             [error |-> parse_chat_error(MessageOf(chat[i].run_error.v),
                                         Some(chat[i].provider.name))]

\* The agent loop of a run returned ContextWindowExceeded and the error
\* frame of the run was broadcast.
C12_Witness ==
  \E i \in Runs :
    /\ chat[i].run_error.some
    /\ chat[i].run_error.v.variant = "ContextWindowExceeded"
    /\ Sent(i, "error")

\* C25: once the task of a run has finished and chat.send has returned,
\* active_runs holds no entry for the run id, whatever the order of the
\* task's steps and the insert.
C25_NoHandleAfterTaskFinished ==
  \A i \in Runs :
    (chat[i].t_pc = "done" /\ chat[i].c_pc = "returned") => i \notin active_runs

\* The history of run i has been handed to its task, which is not over.
Handed(i) == chat[i].c_pc \in {"insert", "returned"} /\ ~TaskOver(i)

\* C26: the history handed to the agent loop or the stream of a send is
\* the session log as it was before the send appended its user message.
C26_HistoryIsLogBeforeSend ==
  \A i \in Runs : Handed(i) => chat[i].history = chat[i].before

\* The places of the terminal frames among the frames of run i.
TerminalFrames(i) ==
  { k \in 1..Len(frames[i]) : frames[i][k].state \in {"final", "error"} }

\* C28: the frames of the RunnerEvents of a run are broadcast in the order
\* the agent loop emitted the events in, and the terminal frame of the run
\* comes after all of them: it is the last frame of the run, and no frame of
\* an event is waiting to be broadcast once it is out.
C28_TerminalFrameComesLast ==
  \A i \in Runs :
    \A k \in TerminalFrames(i) : k = Len(frames[i]) /\ chat[i].spawned = <<>>

\* C29: every run that is not aborted ends by broadcasting exactly one
\* terminal frame: a run whose task has finished has broadcast one.
C29_FinishedRunSentOneTerminalFrame ==
  \A i \in Runs : chat[i].t_pc = "done" => Cardinality(TerminalFrames(i)) = 1


\* ---------------------------------------------------------------------
\* The sandbox router: SandboxRouter
\* ---------------------------------------------------------------------

DEFAULT_SANDBOX_IMAGE == <<"u", "b", "u", "n", "t", "u", ":", "2", "5", ".", "1", "0">>

MAIN == <<"m", "a", "i", "n">>

\* Session keys the router is asked about.
SessionKeys == { MAIN, <<"s", ":", "1">> }

SandboxModes == { "Off", "NonMain", "All" }

SKILL_IMAGE == <<"s", "k", "i", "l", "l", ":", "1">>

SESSION_IMAGE == <<"s", "e", "s", "s", "i", "o", "n", ":", "1">>

GLOBAL_IMAGE == <<"g", "l", "o", "b", "a", "l", ":", "1">>

CONFIG_IMAGE == <<"c", "o", "n", "f", "i", "g", ":", "1">>

\* HashMap::insert, ::remove and ::get on a map that holds a key when its
\* entry is Some.
map_insert(m, k, v) == [m EXCEPT ![k] = Some(v)]

map_remove(m, k) == [m EXCEPT ![k] = NoneV]

map_get(m, k) == m[k]

EmptyMapOver(keys) == [k \in keys |-> NoneV]

\* What the global mode says about a session.
FromMode(session_key) ==
  CASE mode = "Off" -> FALSE
    [] mode = "All" -> TRUE
    [] mode = "NonMain" -> session_key # MAIN

\* Variant: the global mode is asked first, the override only in mode Off.
is_sandboxed_mode_first(session_key) ==
  IF mode = "Off" /\ map_get(overrides, session_key).some
  THEN map_get(overrides, session_key).v
  ELSE FromMode(session_key)

\* SandboxRouter::is_sandboxed
is_sandboxed(session_key) ==
  IF map_get(overrides, session_key).some
  THEN map_get(overrides, session_key).v
  ELSE FromMode(session_key)

\* SandboxRouter::default_image
default_image ==
  IF global_image_override.some THEN global_image_override.v
  ELSE IF config_image.some THEN config_image.v
  ELSE DEFAULT_SANDBOX_IMAGE

\* Variant: the global override beats the per-session override.
resolve_image_global_first(session_key, skill_image) ==
  IF skill_image.some THEN skill_image.v
  ELSE IF global_image_override.some THEN global_image_override.v
  ELSE IF map_get(image_overrides, session_key).some
  THEN map_get(image_overrides, session_key).v
  ELSE default_image

\* SandboxRouter::resolve_image
resolve_image(session_key, skill_image) ==
  IF skill_image.some THEN skill_image.v
  ELSE IF map_get(image_overrides, session_key).some
  THEN map_get(image_overrides, session_key).v
  ELSE default_image

\* What backend.cleanup returns: every backend's cleanup returns Ok(()).
BackendCleanupResults == { [ok |-> TRUE] }

RouterInit ==
  /\ GatewayIdle
  /\ LoopParked
  /\ ChatParked
  /\ FailoverIdle
  /\ AppleIdle
  /\ LibraryIdle
  /\ mode \in SandboxModes
  /\ config_image \in {NoneV, Some(CONFIG_IMAGE)}
  /\ overrides = EmptyMapOver(SessionKeys)
  /\ image_overrides = EmptyMapOver(SessionKeys)
  /\ global_image_override = NoneV
  /\ override_calls = EmptyMapOver(SessionKeys)
  /\ answer = NoneV

RouterFixed ==
  UNCHANGED <<vars, chat_vars, failover_vars, apple_vars, library_vars, gateway_vars,
              mode, config_image>>

\* The call that was made and what it returned.
Answered(op, session_key, arg, returned) ==
  answer' = Some([op |-> op, key |-> session_key, arg |-> arg, ret |-> returned])

IsSandboxed(k) ==
  /\ Answered("is_sandboxed", k, NoneV, is_sandboxed(k))
  /\ UNCHANGED <<overrides, image_overrides, global_image_override, override_calls>>
  /\ RouterFixed

SetOverride(k, enabled) ==
  /\ overrides' = map_insert(overrides, k, enabled)
  /\ override_calls' = [override_calls EXCEPT ![k] = Some([op |-> "set", v |-> enabled])]
  /\ Answered("set_override", k, Some(enabled), NoneV)
  /\ UNCHANGED <<image_overrides, global_image_override>>
  /\ RouterFixed

\* Variant: the override is left in place.
remove_override_skipped(k) == overrides

\* SandboxRouter::remove_override: the overrides after it.
remove_override(k) == map_remove(overrides, k)

RemoveOverride(k) ==
  /\ overrides' = remove_override(k)
  /\ override_calls' = [override_calls EXCEPT ![k] = Some([op |-> "remove"])]
  /\ Answered("remove_override", k, NoneV, NoneV)
  /\ UNCHANGED <<image_overrides, global_image_override>>
  /\ RouterFixed

SetImageOverride(k, image) ==
  /\ image_overrides' = map_insert(image_overrides, k, image)
  /\ Answered("set_image_override", k, Some(image), NoneV)
  /\ UNCHANGED <<overrides, global_image_override, override_calls>>
  /\ RouterFixed

RemoveImageOverride(k) ==
  /\ image_overrides' = map_remove(image_overrides, k)
  /\ Answered("remove_image_override", k, NoneV, NoneV)
  /\ UNCHANGED <<overrides, global_image_override, override_calls>>
  /\ RouterFixed

SetGlobalImage(image) ==
  /\ global_image_override' = image
  /\ Answered("set_global_image", MAIN, image, NoneV)
  /\ UNCHANGED <<overrides, image_overrides, override_calls>>
  /\ RouterFixed

ResolveImage(k, skill_image) ==
  /\ Answered("resolve_image", k, skill_image, resolve_image(k, skill_image))
  /\ UNCHANGED <<overrides, image_overrides, global_image_override, override_calls>>
  /\ RouterFixed

\* SandboxRouter::cleanup_session: the backend cleans up; if that failed the
\* error is returned, else the override of the session is removed.
CleanupSession(k, cleaned) ==
  /\ IF cleaned.ok
     THEN /\ overrides' = remove_override(k)
          /\ override_calls' = [override_calls EXCEPT ![k] = Some([op |-> "remove"])]
     ELSE UNCHANGED <<overrides, override_calls>>
  /\ Answered("cleanup_session", k, map_get(overrides, k), cleaned)
  /\ UNCHANGED <<image_overrides, global_image_override>>
  /\ RouterFixed

RouterNext ==
  \/ \E k \in SessionKeys : IsSandboxed(k)
  \/ \E k \in SessionKeys, enabled \in BOOLEAN : SetOverride(k, enabled)
  \/ \E k \in SessionKeys : RemoveOverride(k)
  \/ \E k \in SessionKeys : SetImageOverride(k, SESSION_IMAGE)
  \/ \E k \in SessionKeys : RemoveImageOverride(k)
  \/ \E image \in {NoneV, Some(GLOBAL_IMAGE)} : SetGlobalImage(image)
  \/ \E k \in SessionKeys, skill_image \in {NoneV, Some(SKILL_IMAGE)} :
       ResolveImage(k, skill_image)
  \/ \E k \in SessionKeys, cleaned \in BackendCleanupResults : CleanupSession(k, cleaned)

RouterSpec == RouterInit /\ [][RouterNext]_<<vars, outside>>


\* ---------------------------------------------------------------------
\* Claims about the sandbox router
\* ---------------------------------------------------------------------

\* The value of the latest set_override(k, v) that no remove_override(k)
\* followed, else what the mode says.
LatestOverrideOrMode(k) ==
  IF override_calls[k].some /\ override_calls[k].v.op = "set"
  THEN override_calls[k].v.v
  ELSE IF mode = "Off" THEN FALSE
  ELSE IF mode = "All" THEN TRUE
  ELSE k # <<"m", "a", "i", "n">>

\* C17: after any sequence of set_override and remove_override calls,
\* is_sandboxed(k) returns the value of the latest set_override(k, v) not
\* followed by remove_override(k), whatever the mode; without one it returns
\* false for Off, true for All and (k # "main") for NonMain.
C17_IsSandboxedFollowsOverride ==
  (answer.some /\ answer.v.op = "is_sandboxed") =>
    answer.v.ret = LatestOverrideOrMode(answer.v.key)

\* is_sandboxed("main") returned false in mode All, after set_override("main", false).
C17_Witness ==
  /\ answer.some
  /\ answer.v.op = "is_sandboxed"
  /\ answer.v.key = MAIN
  /\ mode = "All"
  /\ override_calls[MAIN] = Some([op |-> "set", v |-> FALSE])
  /\ answer.v.ret = FALSE

\* The first value of a list of options that is set.
FirstSet(options) ==
  options[CHOOSE n \in 1..Len(options) :
            options[n].some /\ \A m \in 1..(n - 1) : ~options[m].some].v

\* C18: resolve_image(k, skill_image) returns the first value that is set
\* among the skill image, the per-session image override of k, the runtime
\* global override, the config image and DEFAULT_SANDBOX_IMAGE, after any
\* sequence of set/remove image-override and set_global_image calls.
C18_ResolveImagePriority ==
  (answer.some /\ answer.v.op = "resolve_image") =>
    answer.v.ret =
      FirstSet(<<answer.v.arg, image_overrides[answer.v.key], global_image_override,
                 config_image, Some(DEFAULT_SANDBOX_IMAGE)>>)

\* Without a skill image, the per-session override was returned although a
\* global override and a config image were set.
C18_Witness ==
  /\ answer.some
  /\ answer.v.op = "resolve_image"
  /\ ~answer.v.arg.some
  /\ image_overrides[answer.v.key].some
  /\ global_image_override.some
  /\ config_image.some
  /\ answer.v.ret = SESSION_IMAGE

\* C20: cleanup_session(k) clears the per-session sandbox override of k:
\* right after it is_sandboxed(k) is what the global mode says.
C20_CleanupSessionClearsOverride ==
  (answer.some /\ answer.v.op = "cleanup_session") =>
    /\ ~overrides[answer.v.key].some
    /\ is_sandboxed(answer.v.key) =
         (\/ mode = "All"
          \/ mode = "NonMain" /\ answer.v.key # <<"m", "a", "i", "n">>)

\* cleanup_session(k) returned for a key whose override said the opposite of
\* the mode.
C20_Witness ==
  /\ answer.some
  /\ answer.v.op = "cleanup_session"
  /\ answer.v.arg.some
  /\ answer.v.arg.v # FromMode(answer.v.key)

\* C36: after cleanup_session(k) no per-session image override remains for
\* k: a following resolve_image(k, None) returns the default image (global
\* override, else config image, else DEFAULT_SANDBOX_IMAGE).
C36_CleanupSessionClearsImageOverride ==
  (answer.some /\ answer.v.op = "cleanup_session") =>
    /\ ~map_get(image_overrides, answer.v.key).some
    /\ resolve_image(answer.v.key, NoneV) =
         (IF global_image_override.some THEN global_image_override.v
          ELSE IF config_image.some THEN config_image.v
          ELSE DEFAULT_SANDBOX_IMAGE)


\* ---------------------------------------------------------------------
\* The failover wrapper: FailoverSandbox
\* ---------------------------------------------------------------------

\* Operations started on the wrapper.
MaxOps == 2

APPLE_CONTAINER == <<"a", "p", "p", "l", "e", "-", "c", "o", "n", "t", "a", "i", "n", "e", "r">>

DOCKER == <<"d", "o", "c", "k", "e", "r">>

XPC_CONNECTION_ERROR == <<"X", "P", "C", " ", "c", "o", "n", "n", "e", "c", "t", "i", "o", "n", " ", "e", "r", "r", "o", "r">>

CONNECTION_INVALID == <<"C", "o", "n", "n", "e", "c", "t", "i", "o", "n", " ", "i", "n", "v", "a", "l", "i", "d">>

ALREADY_EXISTS == <<"a", "l", "r", "e", "a", "d", "y", " ", "e", "x", "i", "s", "t", "s">>

EXISTS_CONTAINER_WITH_ID == <<"e", "x", "i", "s", "t", "s", ":", " ", "\"", "c", "o", "n", "t", "a", "i", "n", "e", "r", " ", "w", "i", "t", "h", " ", "i", "d">>

CANNOT_EXEC_NOT_RUNNING == <<"c", "a", "n", "n", "o", "t", " ", "e", "x", "e", "c", ":", " ", "c", "o", "n", "t", "a", "i", "n", "e", "r", " ", "i", "s", " ", "n", "o", "t", " ", "r", "u", "n", "n", "i", "n", "g">>

FAILED_TO_BOOTSTRAP == <<"f", "a", "i", "l", "e", "d", " ", "t", "o", " ", "b", "o", "o", "t", "s", "t", "r", "a", "p", " ", "c", "o", "n", "t", "a", "i", "n", "e", "r">>

CONFIG_JSON == <<"c", "o", "n", "f", "i", "g", ".", "j", "s", "o", "n">>

is_apple_container_service_error(stderr) ==
  contains(stderr, XPC_CONNECTION_ERROR) \/ contains(stderr, CONNECTION_INVALID)

is_apple_container_exists_error(stderr) ==
  contains(stderr, ALREADY_EXISTS) \/ contains(stderr, EXISTS_CONTAINER_WITH_ID)

is_apple_container_corruption_error(stderr) ==
  \/ is_apple_container_service_error(stderr)
  \/ is_apple_container_exists_error(stderr)
  \/ contains(stderr, CANNOT_EXEC_NOT_RUNNING)
  \/ contains(stderr, FAILED_TO_BOOTSTRAP)
  \/ contains(stderr, CONFIG_JSON)

\* An anyhow::Error is its chain of messages, outermost first.
\* format!("{error}") is the outermost message.
display(error) == error[1]

\* format!("{error:#}") is the chain joined by ": ".
RECURSIVE alternate(_)
alternate(error) ==
  IF Len(error) = 1 THEN error[1]
  ELSE error[1] \o <<":", " ">> \o alternate(Tail(error))

\* Variant: the corruption predicate is asked whatever the primary is.
should_failover_any_primary(error) ==
  is_apple_container_corruption_error(alternate(error))

\* Variant: no error of the primary makes the wrapper fail over.
should_failover_never(error) == FALSE

\* FailoverSandbox::should_failover
should_failover(error) ==
  IF primary_name # APPLE_CONTAINER THEN FALSE
  ELSE is_apple_container_corruption_error(alternate(error))

\* Variant: the flag is not looked at.
fallback_never_enabled == FALSE

\* FailoverSandbox::fallback_enabled
fallback_enabled == use_fallback

\* The error of ensure_ready when the fallback failed as well.
BothFailed(primary_error, fallback_error) ==
  << <<"p", "r", "i", "m", "a", "r", "y", " ", "s", "a", "n", "d", "b", "o", "x", " ", "b", "a", "c", "k", "e", "n", "d", " ", "(">> \o primary_name \o <<")", " ", "f", "a", "i", "l", "e", "d", ":", " ">> \o alternate(primary_error)
     \o <<";", " ", "f", "a", "l", "l", "b", "a", "c", "k", " ", "b", "a", "c", "k", "e", "n", "d", " ", "(">> \o DOCKER \o <<")", " ", "a", "l", "s", "o", " ", "f", "a", "i", "l", "e", "d", ":", " ">> \o display(fallback_error) >>

\* The error of exec when the fallback could not be made ready.
BothFailedDuringExec(primary_error, fallback_error) ==
  << <<"p", "r", "i", "m", "a", "r", "y", " ", "s", "a", "n", "d", "b", "o", "x", " ", "b", "a", "c", "k", "e", "n", "d", " ", "(">> \o primary_name \o <<")", " ", "f", "a", "i", "l", "e", "d", " ", "d", "u", "r", "i", "n", "g", " ", "e", "x", "e", "c", ":", " ">> \o alternate(primary_error)
     \o <<";", " ", "f", "a", "l", "l", "b", "a", "c", "k", " ", "b", "a", "c", "k", "e", "n", "d", " ", "(">> \o DOCKER \o <<")", " ", "f", "a", "i", "l", "e", "d", " ", "t", "o", " ", "i", "n", "i", "t", "i", "a", "l", "i", "z", "e", ":", " ">> \o display(fallback_error) >>

OkOf(v) == [ok |-> TRUE, val |-> v]

ErrOf(e) == [ok |-> FALSE, err |-> e]

\* Errors the primary may fail with.
PrimaryErrors ==
  { << <<"p", "e", "r", "m", "i", "s", "s", "i", "o", "n", " ", "d", "e", "n", "i", "e", "d">> >>,
    << <<"f", "a", "i", "l", "e", "d", " ", "t", "o", " ", "b", "o", "o", "t", "s", "t", "r", "a", "p", " ", "c", "o", "n", "t", "a", "i", "n", "e", "r", ":", " ", "c", "o", "n", "f", "i", "g", ".", "j", "s", "o", "n", " ", "m", "i", "s", "s", "i", "n", "g">> >>,
    << <<"c", "o", "n", "t", "a", "i", "n", "e", "r", " ", "e", "x", "e", "c", " ", "f", "a", "i", "l", "e", "d">>, XPC_CONNECTION_ERROR >> }

\* Errors the fallback may fail with.
FallbackErrors == { << <<"d", "o", "c", "k", "e", "r", " ", "r", "u", "n", " ", "f", "a", "i", "l", "e", "d">>, <<"d", "a", "e", "m", "o", "n", " ", "d", "o", "w", "n">> >> }

\* What a backend may return for an operation; cleanup returns Ok(()) in
\* every backend.
BackendResults(backend, kind, errors) ==
  { OkOf([by |-> backend, op |-> kind]) }
  \cup (IF kind = "cleanup" THEN {} ELSE { ErrOf(e) : e \in errors })

FailoverKinds == { "ensure_ready", "exec", "build_image", "cleanup" }

FailoverInit ==
  /\ GatewayIdle
  /\ LoopParked
  /\ ChatParked
  /\ RouterIdle
  /\ AppleIdle
  /\ LibraryIdle
  /\ primary_name \in { APPLE_CONTAINER, DOCKER }
  /\ use_fallback = FALSE
  /\ fo_ops = <<>>

FailoverFixed ==
  UNCHANGED <<vars, chat_vars, router_vars, apple_vars, library_vars, gateway_vars,
              primary_name>>

FoOps == 1..Len(fo_ops)

\* The operation after a call of a backend that returned out.
Called(o, backend, op, out) ==
  [o EXCEPT !.calls = Append(@, [backend |-> backend, op |-> op, out |-> out])]

\* The operation after it returned.
Returned(o, out) == [o EXCEPT !.ret = Some(out), !.pc = "done"]

\* An operation is called on the wrapper.  switched keeps, for the record,
\* whether the switch had happened by then.
FoStart(kind) ==
  /\ Len(fo_ops) < MaxOps
  /\ fo_ops' = Append(fo_ops, [kind |-> kind, pc |-> "check", switched |-> use_fallback,
                               primary_error |-> NoneV, calls |-> <<>>, ret |-> NoneV])
  /\ UNCHANGED use_fallback
  /\ FailoverFixed

\* The operation reads the flag.
FoCheck(i) ==
  /\ fo_ops[i].pc = "check"
  /\ fo_ops' = [fo_ops EXCEPT ![i].pc = IF fallback_enabled THEN "fallback" ELSE "primary"]
  /\ UNCHANGED use_fallback
  /\ FailoverFixed

\* The primary is called and returns.
FoPrimary(i, out) ==
  /\ fo_ops[i].pc = "primary"
  /\ LET o == Called(fo_ops[i], "primary", fo_ops[i].kind, out)
     IN IF out.ok \/ o.kind = "cleanup"
        THEN fo_ops' = [fo_ops EXCEPT ![i] = Returned(o, out)]
        ELSE IF ~should_failover(out.err)
        THEN fo_ops' = [fo_ops EXCEPT ![i] = Returned(o, out)]
        ELSE fo_ops' = [fo_ops EXCEPT ![i] = [o EXCEPT !.primary_error = Some(out.err),
                                                       !.pc = "switch"]]
  /\ UNCHANGED use_fallback
  /\ FailoverFixed

\* FailoverSandbox::switch_to_fallback
FoSwitch(i) ==
  /\ fo_ops[i].pc = "switch"
  /\ use_fallback' = TRUE
  /\ fo_ops' = [fo_ops EXCEPT ![i].pc = IF fo_ops[i].kind = "exec" THEN "fallback_ready"
                                        ELSE "fallback"]
  /\ FailoverFixed

\* exec after the switch: the fallback is made ready first.
FoFallbackReady(i, out) ==
  /\ fo_ops[i].pc = "fallback_ready"
  /\ LET o == Called(fo_ops[i], "fallback", "ensure_ready", out)
     IN IF out.ok
        THEN fo_ops' = [fo_ops EXCEPT ![i] = [o EXCEPT !.pc = "fallback"]]
        ELSE fo_ops' =
               [fo_ops EXCEPT
                  ![i] = Returned(o, ErrOf(BothFailedDuringExec(o.primary_error.v, out.err)))]
  /\ UNCHANGED use_fallback
  /\ FailoverFixed

\* The fallback is called and returns: for an operation that found the
\* flag set, or as the retry of the operation that switched.
FoFallback(i, out) ==
  /\ fo_ops[i].pc = "fallback"
  /\ LET o == Called(fo_ops[i], "fallback", fo_ops[i].kind, out)
     IN IF o.kind = "cleanup"
        THEN fo_ops' = [fo_ops EXCEPT ![i] = [o EXCEPT !.ret = Some(out),
                                                       !.pc = "cleanup_primary"]]
        ELSE IF o.primary_error.some /\ o.kind = "ensure_ready" /\ ~out.ok
        THEN fo_ops' =
               [fo_ops EXCEPT ![i] = Returned(o, ErrOf(BothFailed(o.primary_error.v, out.err)))]
        ELSE fo_ops' = [fo_ops EXCEPT ![i] = Returned(o, out)]
  /\ UNCHANGED use_fallback
  /\ FailoverFixed

\* cleanup after the switch: the primary is cleaned up as well and what it
\* returns is dropped.
FoCleanupPrimary(i, out) ==
  /\ fo_ops[i].pc = "cleanup_primary"
  /\ fo_ops' = [fo_ops EXCEPT ![i] = [Called(fo_ops[i], "primary", "cleanup", out)
                                        EXCEPT !.pc = "done"]]
  /\ UNCHANGED use_fallback
  /\ FailoverFixed

FailoverNext ==
  \/ \E kind \in FailoverKinds : FoStart(kind)
  \/ \E i \in FoOps : FoCheck(i)
  \/ \E i \in FoOps :
       \E out \in BackendResults("primary", fo_ops[i].kind, PrimaryErrors) : FoPrimary(i, out)
  \/ \E i \in FoOps : FoSwitch(i)
  \/ \E i \in FoOps :
       \E out \in BackendResults("fallback", "ensure_ready", FallbackErrors) :
         FoFallbackReady(i, out)
  \/ \E i \in FoOps :
       \E out \in BackendResults("fallback", fo_ops[i].kind, FallbackErrors) :
         FoFallback(i, out)
  \/ \E i \in FoOps :
       \E out \in BackendResults("primary", "cleanup", PrimaryErrors) : FoCleanupPrimary(i, out)

FailoverSpec == FailoverInit /\ [][FailoverNext]_<<vars, outside>>


\* ---------------------------------------------------------------------
\* Claims about the failover wrapper
\* ---------------------------------------------------------------------

\* Every ensure_ready, exec or build_image that was started after the switch
\* has called the fallback only, and has returned what the fallback returned.
ServedByFallback ==
  \A i \in FoOps :
    (fo_ops[i].switched /\ fo_ops[i].kind \in {"ensure_ready", "exec", "build_image"}) =>
      /\ \A n \in 1..Len(fo_ops[i].calls) : fo_ops[i].calls[n].backend = "fallback"
      /\ fo_ops[i].pc = "done" =>
           /\ Len(fo_ops[i].calls) = 1
           /\ fo_ops[i].calls[1].op = fo_ops[i].kind
           /\ fo_ops[i].ret = Some(fo_ops[i].calls[1].out)

\* C13: once the wrapper has switched to the fallback the switch is never
\* undone, and every ensure_ready, exec or build_image started after the
\* switch is served by the fallback without a call of the primary.
C13_SwitchIsPermanent ==
  [][(use_fallback => use_fallback') /\ ServedByFallback']_<<vars, outside>>

\* An operation that was started after the switch has returned.
C13_Witness ==
  \E i \in FoOps :
    /\ fo_ops[i].switched
    /\ fo_ops[i].kind \in {"ensure_ready", "exec", "build_image"}
    /\ fo_ops[i].pc = "done"

\* The first call of operation i was a call of the primary, which failed.
PrimaryFailed(i) ==
  /\ Len(fo_ops[i].calls) >= 1
  /\ fo_ops[i].calls[1].backend = "primary"
  /\ ~fo_ops[i].calls[1].out.ok

\* The primary is apple-container and the error it failed with in operation
\* i matches the corruption predicate.
CorruptionOfApple(i) ==
  /\ primary_name = <<"a", "p", "p", "l", "e", "-", "c", "o", "n", "t", "a", "i", "n", "e", "r">>
  /\ is_apple_container_corruption_error(alternate(fo_ops[i].calls[1].out.err))

\* Operation i is an ensure_ready or exec whose primary failed that way.
PrimaryCorrupted(i) ==
  /\ fo_ops[i].kind \in {"ensure_ready", "exec"}
  /\ PrimaryFailed(i)
  /\ CorruptionOfApple(i)

\* The calls an operation made after its first.
Retry(i) == Tail(fo_ops[i].calls)

\* The retry of operation i as the claim has it: the same operation on the
\* fallback, for exec after an ensure_ready of the fallback and only if that
\* succeeded.
RetriedOnFallback(i) ==
  /\ Retry(i) # <<>>
  /\ \A n \in 1..Len(Retry(i)) : Retry(i)[n].backend = "fallback"
  /\ IF fo_ops[i].kind = "ensure_ready"
     THEN Len(Retry(i)) = 1 /\ Retry(i)[1].op = "ensure_ready"
     ELSE /\ Retry(i)[1].op = "ensure_ready"
          /\ IF Retry(i)[1].out.ok
             THEN Len(Retry(i)) = 2 /\ Retry(i)[2].op = "exec"
             ELSE Len(Retry(i)) = 1

\* The last call of operation i and what it returned.
LastCall(i) == fo_ops[i].calls[Len(fo_ops[i].calls)]

\* C14 as stated: after a corruption error of the primary the call returns
\* the outcome of the fallback.
C14_Original ==
  \A i \in FoOps :
    (fo_ops[i].pc = "done" /\ PrimaryCorrupted(i)) =>
      /\ RetriedOnFallback(i)
      /\ fo_ops[i].ret = Some(LastCall(i).out)

\* C14 (amended): when the primary is apple-container and its ensure_ready
\* or exec fails with an error the corruption predicate matches, the wrapper
\* retries the operation on the fallback within the same call (for exec after
\* making the fallback ready, and only if that succeeded).  It returns the
\* fallback's result, except when the fallback's ensure_ready failed: then it
\* returns a new error whose message carries the primary's and the
\* fallback's message.
C14_RetryOnFallback ==
  \A i \in FoOps :
    (fo_ops[i].pc = "done" /\ PrimaryCorrupted(i)) =>
      /\ RetriedOnFallback(i)
      /\ IF LastCall(i).op = "ensure_ready" /\ ~LastCall(i).out.ok
         THEN /\ ~fo_ops[i].ret.v.ok
              /\ Len(fo_ops[i].ret.v.err) = 1
              /\ contains(fo_ops[i].ret.v.err[1], alternate(fo_ops[i].calls[1].out.err))
              /\ contains(fo_ops[i].ret.v.err[1], display(LastCall(i).out.err))
         ELSE fo_ops[i].ret = Some(LastCall(i).out)

\* An exec whose primary failed with a corruption error ran on the fallback
\* after the fallback was made ready.
C14_Witness ==
  \E i \in FoOps :
    /\ fo_ops[i].pc = "done"
    /\ PrimaryCorrupted(i)
    /\ fo_ops[i].kind = "exec"
    /\ Len(fo_ops[i].calls) = 3
    /\ fo_ops[i].ret.v.ok

\* C15: the wrapper switches only when the primary is apple-container and
\* the primary's error matches the corruption predicate; any other error of
\* the primary is returned as it is, the fallback is not invoked for it, and
\* the flag stays as it was.
C15_SwitchOnlyOnCorruption ==
  /\ \A i \in FoOps :
       fo_ops[i].primary_error.some =>
         /\ primary_name = <<"a", "p", "p", "l", "e", "-", "c", "o", "n", "t", "a", "i", "n", "e", "r">>
         /\ is_apple_container_corruption_error(alternate(fo_ops[i].primary_error.v))
  /\ use_fallback => \E i \in FoOps : fo_ops[i].primary_error.some
  /\ \A i \in FoOps :
       (fo_ops[i].pc = "done" /\ PrimaryFailed(i) /\ ~CorruptionOfApple(i)) =>
         /\ fo_ops[i].ret = Some(fo_ops[i].calls[1].out)
         /\ Len(fo_ops[i].calls) = 1

\* The primary failed with an error the predicate does not match; the error
\* was returned and the wrapper still uses the primary.
C15_Witness ==
  /\ ~use_fallback
  /\ \E i \in FoOps :
       /\ fo_ops[i].pc = "done"
       /\ fo_ops[i].kind = "ensure_ready"
       /\ Len(fo_ops[i].calls) = 1
       /\ ~fo_ops[i].calls[1].out.ok
       /\ fo_ops[i].ret = Some(fo_ops[i].calls[1].out)

\* ---------------------------------------------------------------------
\* The Apple Container backend: container names and their generations
\* (crates/tools/src/sandbox.rs)
\* ---------------------------------------------------------------------

\* Operations on the backend that the model follows at once.
MaxAppleOps == 2

CONTAINER_PREFIX == <<"m", "o", "l", "t", "i", "s", "-", "s", "a", "n", "d", "b", "o", "x">>

NO_SPACE_LEFT == <<"n", "o", " ", "s", "p", "a", "c", "e", " ", "l", "e", "f", "t">>

\* Keys of the sandboxes the backend is asked about.
AppleKeys == { MAIN, <<"s", "-", "1">> }

base_container_name(key) == CONTAINER_PREFIX \o <<"-">> \o key

\* The name of a generation of a key.
generation_name(key, generation) ==
  IF generation = 0
  THEN base_container_name(key)
  ELSE base_container_name(key) \o <<"-", "g">> \o fmt_usize(generation)

\* The generation the key's container name is made of.
current_generation(key) ==
  LET g == map_get(name_generations, key) IN IF g.some THEN g.v ELSE 0

container_name(key) == generation_name(key, current_generation(key))

\* The map after the key's generation was bumped.
bump_container_generation(key) ==
  map_insert(name_generations, key, current_generation(key) + 1)

\* What the inspection of a container may find, with the start of a stopped
\* container that follows it.
InspectOutcomes == { "missing", "running", "restarted", "start_failed", "unknown" }

\* What container run may put out.
RunOutputs ==
  { [success |-> TRUE, stderr |-> <<>>],
    [success |-> FALSE, stderr |-> ALREADY_EXISTS],
    [success |-> FALSE, stderr |-> NO_SPACE_LEFT],
    [success |-> FALSE, stderr |-> XPC_CONNECTION_ERROR] }

AppleInit ==
  /\ GatewayIdle
  /\ LoopParked
  /\ ChatParked
  /\ RouterIdle
  /\ FailoverIdle
  /\ LibraryIdle
  /\ name_generations = EmptyMapOver(AppleKeys)
  /\ apple_ops = <<>>
  /\ unremoved = {}

AppleFixed ==
  UNCHANGED <<vars, chat_vars, router_vars, failover_vars, library_vars, gateway_vars>>

AppleOps == 1..Len(apple_ops)

\* An operation that was called, with its locals as they are at the start.
NewOp(kind, key) ==
  [kind |-> kind, key |-> key, pc |-> "start", name |-> <<>>, output |-> NoneV,
   attempt |-> 0, max_generation |-> 0, generation |-> 0, removed |-> {},
   ret |-> NoneV]

\* An operation that returned: its locals are dropped.
Done(o, returned) == [NewOp(o.kind, o.key) EXCEPT !.pc = "done", !.ret = Some(returned)]

\* ensure_ready or cleanup is called for a key.
AppleStart(kind, key) ==
  /\ Len(apple_ops) < MaxAppleOps
  /\ apple_ops' = Append(apple_ops, NewOp(kind, key))
  /\ UNCHANGED <<name_generations, unremoved>>
  /\ AppleFixed

\* ensure_ready reads the name of the key's container.
ReadyName(i) ==
  /\ apple_ops[i].kind = "ensure_ready"
  /\ apple_ops[i].pc = "start"
  /\ apple_ops' = [apple_ops EXCEPT ![i].name = container_name(apple_ops[i].key),
                                    ![i].pc = "inspect"]
  /\ UNCHANGED <<name_generations, unremoved>>
  /\ AppleFixed

\* ensure_ready inspects the container: a running or restarted container is
\* ready, one that cannot be started or is in an unknown state is removed by
\* force and made again, a missing one is made.
ReadyInspect(i, found) ==
  /\ apple_ops[i].pc = "inspect"
  /\ IF found \in { "running", "restarted" }
     THEN /\ apple_ops' = [apple_ops EXCEPT ![i] = Done(@, [ok |-> TRUE])]
          /\ UNCHANGED unremoved
     ELSE /\ apple_ops' = [apple_ops EXCEPT ![i].pc = "run"]
          /\ unremoved' = IF found = "missing" THEN unremoved
                          ELSE unremoved \ { apple_ops[i].name }
  /\ UNCHANGED name_generations
  /\ AppleFixed

\* container run under the name that was read.
ReadyRun(i, out) ==
  /\ apple_ops[i].pc = "run"
  /\ apple_ops' = [apple_ops EXCEPT ![i].output = Some(out), ![i].pc = "recover"]
  /\ unremoved' = unremoved \cup { apple_ops[i].name }
  /\ UNCHANGED name_generations
  /\ AppleFixed

\* Whether the recovery loop is over: the run succeeded, the service is
\* down, or two names were tried.
RecoveryOver(o) ==
  \/ o.output.v.success
  \/ is_apple_container_service_error(o.output.v.stderr)
  \/ o.attempt = 2

\* One turn of the recovery loop: a name that exists already is removed by
\* force, the generation is bumped and container run is tried under the new
\* name.
ReadyRecover(i, out) ==
  /\ apple_ops[i].pc = "recover"
  /\ ~RecoveryOver(apple_ops[i])
  /\ LET o == apple_ops[i]
         next_name == generation_name(o.key, current_generation(o.key) + 1)
         kept == IF is_apple_container_exists_error(o.output.v.stderr)
                 THEN unremoved \ { o.name }
                 ELSE unremoved
     IN /\ name_generations' = bump_container_generation(o.key)
        /\ unremoved' = kept \cup { next_name }
        /\ apple_ops' = [apple_ops EXCEPT ![i].name = next_name,
                                          ![i].output = Some(out),
                                          ![i].attempt = @ + 1]
  /\ AppleFixed

\* ensure_ready returns: Ok after a run that succeeded, an error otherwise.
ReadyReturn(i) ==
  /\ apple_ops[i].pc = "recover"
  /\ RecoveryOver(apple_ops[i])
  /\ LET o == apple_ops[i]
         returned == IF o.output.v.success THEN [ok |-> TRUE]
                   ELSE IF is_apple_container_service_error(o.output.v.stderr)
                   THEN [ok |-> FALSE, err |-> [service_down |-> TRUE]]
                   ELSE [ok |-> FALSE,
                         err |-> [service_down |-> FALSE, name |-> o.name,
                                  stderr |-> o.output.v.stderr]]
     IN apple_ops' = [apple_ops EXCEPT ![i] = Done(@, returned)]
  /\ UNCHANGED <<name_generations, unremoved>>
  /\ AppleFixed

\* cleanup reads the key's generation.
CleanupRead(i) ==
  /\ apple_ops[i].kind = "cleanup"
  /\ apple_ops[i].pc = "start"
  /\ apple_ops' = [apple_ops EXCEPT ![i].max_generation = current_generation(apple_ops[i].key),
                                    ![i].generation = 0,
                                    ![i].pc = "remove"]
  /\ UNCHANGED <<name_generations, unremoved>>
  /\ AppleFixed

\* cleanup stops and removes the container of one generation.
CleanupRemove(i) ==
  /\ apple_ops[i].pc = "remove"
  /\ apple_ops[i].generation <= apple_ops[i].max_generation
  /\ LET name == generation_name(apple_ops[i].key, apple_ops[i].generation)
     IN /\ unremoved' = unremoved \ { name }
        /\ apple_ops' = [apple_ops EXCEPT ![i].removed = @ \cup { name },
                                          ![i].generation = @ + 1]
  /\ UNCHANGED name_generations
  /\ AppleFixed

\* cleanup forgets the key's generation and returns.
CleanupForget(i) ==
  /\ apple_ops[i].pc = "remove"
  /\ apple_ops[i].generation > apple_ops[i].max_generation
  /\ name_generations' = map_remove(name_generations, apple_ops[i].key)
  /\ apple_ops' = [apple_ops EXCEPT ![i] = Done(@, [ok |-> TRUE])]
  /\ UNCHANGED unremoved
  /\ AppleFixed

AppleNext ==
  \/ \E kind \in { "ensure_ready", "cleanup" } : \E key \in AppleKeys : AppleStart(kind, key)
  \/ \E i \in AppleOps : ReadyName(i)
  \/ \E i \in AppleOps : \E found \in InspectOutcomes : ReadyInspect(i, found)
  \/ \E i \in AppleOps : \E out \in RunOutputs : ReadyRun(i, out)
  \/ \E i \in AppleOps : \E out \in RunOutputs : ReadyRecover(i, out)
  \/ \E i \in AppleOps : ReadyReturn(i)
  \/ \E i \in AppleOps : CleanupRead(i)
  \/ \E i \in AppleOps : CleanupRemove(i)
  \/ \E i \in AppleOps : CleanupForget(i)

AppleSpec == AppleInit /\ [][AppleNext]_<<vars, outside>>


\* ---------------------------------------------------------------------
\* Claims about the container names
\* ---------------------------------------------------------------------

\* C16: for each sandbox key, the generation its container name is made of
\* never decreases, whatever ensure_ready, rotation or cleanup is done.
C16_GenerationNeverDecreases ==
  [][\A key \in AppleKeys : current_generation(key)' >= current_generation(key)]_<<vars, outside>>

\* The names of a key that are in use and that the cleanup has issued no
\* removal for.
LeftBy(o, names) ==
  { name \in names \ o.removed :
      \E generation \in 0..(2 * MaxAppleOps) : name = generation_name(o.key, generation) }

\* C19: once a cleanup of a key has returned, no name that was given to a
\* container of that key is left without a removal.
C19_CleanupRemovesEveryGeneration ==
  [][\A i \in AppleOps :
       (apple_ops[i].kind = "cleanup" /\ apple_ops[i].pc = "remove" /\ apple_ops'[i].pc = "done")
         => LeftBy(apple_ops[i], unremoved') = {}]_<<vars, outside>>

\* ---------------------------------------------------------------------
\* The sanitizer called on its own (crates/agents/src/runner.rs)
\* ---------------------------------------------------------------------

\* The largest of the small limits sanitize_tool_result is called with.
MaxSanitizeLimit == 12

\* The limit the tests of the sanitizer pass for texts that are not to be cut.
TEST_MAX_BYTES == 50000

Repeat(b, n) == [i \in 1..n |-> b]

HELLO_WORLD == <<"h", "e", "l", "l", "o", " ", "w", "o", "r", "l", "d">>

\* The texts the sanitizer is called with: plain text, text whose
\* codepoints take one, two and three bytes, a hex run and a base64 data URI
\* of the least length that is stripped and of lengths that are kept, and a
\* text that was truncated before.
SanitizeInputs ==
  { <<>>,
    HELLO_WORLD,
    <<"a", "L2", "X8", "L2", "X8", "L3", "X8", "X8", "z", "L2", "X8", "L2", "X8", "!">>,
    <<"c", "o", "d", "e", ":", " ">> \o Repeat("a", HEX_MIN_LEN) \o <<" ", "e", "n", "d">>,
    <<"c", "o", "d", "e", ":", " ">> \o Repeat("a", HEX_MIN_LEN - 1),
    <<"s", "e", "e", " ">> \o BASE64_TAG \o <<"i", "m", "g">> \o BASE64_MARKER
      \o Repeat("Q", BASE64_MIN_LEN) \o <<" ", "a", "f", "t", "e", "r">>,
    BASE64_TAG \o <<"t", "x", "t">> \o BASE64_MARKER \o <<"Q", "U", "F", "B">>,
    <<"a", "b">> \o TRUNC_PRE \o <<"9">> \o TRUNC_POST }

SanitizeLimits == (0..MaxSanitizeLimit) \cup { TEST_MAX_BYTES }

SanitizeInit ==
  /\ GatewayIdle
  /\ LoopParked
  /\ ChatParked
  /\ RouterIdle
  /\ FailoverIdle
  /\ AppleIdle
  /\ tools = <<>>
  /\ registered = <<>>
  /\ lookup = NoneV
  /\ fn_call \in { Some([input |-> s, max_bytes |-> m]) : s \in SanitizeInputs, m \in SanitizeLimits }
  /\ fn_ret = <<>>

LibraryFixed == UNCHANGED <<vars, chat_vars, sandbox_vars, gateway_vars>>

\* sanitize_tool_result(input, max_bytes)
SanitizeCall ==
  /\ fn_ret = <<>>
  /\ fn_ret' = <<sanitize_tool_result(fn_call.v.input, fn_call.v.max_bytes)>>
  /\ UNCHANGED <<tools, registered, lookup, fn_call>>
  /\ LibraryFixed

\* sanitize_tool_result of what the first call returned, with the same limit
SanitizeAgain ==
  /\ Len(fn_ret) = 1
  /\ fn_ret' = Append(fn_ret, sanitize_tool_result(fn_ret[1], fn_call.v.max_bytes))
  /\ UNCHANGED <<tools, registered, lookup, fn_call>>
  /\ LibraryFixed

SanitizeNext == SanitizeCall \/ SanitizeAgain

SanitizeSpec == SanitizeInit /\ [][SanitizeNext]_<<vars, outside>>


\* ---------------------------------------------------------------------
\* Claims about the sanitizer
\* ---------------------------------------------------------------------

\* "\n\n[truncated — <original> bytes total]"
TruncationMarker(original) == TRUNC_PRE \o fmt_usize(original) \o TRUNC_POST

EndsWith(s, suffix) ==
  Len(s) >= Len(suffix) /\ SubSeq(s, Len(s) - Len(suffix) + 1, Len(s)) = suffix

\* out is at most max_bytes long, or it ends with a truncation marker and
\* is at most max_bytes long without it.
WithinLimit(out, max_bytes, longest) ==
  \/ Len(out) <= max_bytes
  \/ \E original \in 0..longest :
       /\ EndsWith(out, TruncationMarker(original))
       /\ Len(out) <= max_bytes + Len(TruncationMarker(original))

\* C21: the byte length of sanitize(s, m) is at most m plus the length of
\* the truncation marker that was appended.
C21_SanitizeLengthBound ==
  Len(fn_ret) >= 1 =>
    WithinLimit(fn_ret[1], fn_call.v.max_bytes, Len(fn_call.v.input))

\* A text of several codepoints of more than one byte was cut.
C21_Witness ==
  /\ Len(fn_ret) >= 1
  /\ "L3" \in { fn_call.v.input[i] : i \in 1..Len(fn_call.v.input) }
  /\ Len(fn_ret[1]) > fn_call.v.max_bytes
  /\ fn_call.v.max_bytes > 0

\* The marker strings of the sanitizer.
MarkerStrings ==
  { SubSeq(TRUNC_PRE, 3, Len(TRUNC_PRE)), B64_REMOVED_PRE, HEX_REMOVED_PRE }

ContainsMarker(s) == \E marker \in MarkerStrings : contains(s, marker)

\* C22 as stated: sanitize(sanitize(s, m), m) = sanitize(s, m) for every s
\* that holds no marker string.
C22_Original ==
  (Len(fn_ret) = 2 /\ ~ContainsMarker(fn_call.v.input)) => fn_ret[2] = fn_ret[1]

\* C22: sanitize(sanitize(s, m), m) = sanitize(s, m) for every s that holds
\* no marker string and whose sanitize(s, m) is at most m bytes long.
C22_SanitizeIdempotentWithinLimit ==
  (/\ Len(fn_ret) = 2
   /\ ~ContainsMarker(fn_call.v.input)
   /\ Len(fn_ret[1]) <= fn_call.v.max_bytes) => fn_ret[2] = fn_ret[1]

\* A hex run was stripped, and the second call left the result as it was.
C22_Witness ==
  /\ Len(fn_ret) = 2
  /\ ~ContainsMarker(fn_call.v.input)
  /\ Len(fn_ret[1]) <= fn_call.v.max_bytes
  /\ fn_ret[1] # fn_call.v.input
  /\ contains(fn_ret[1], HEX_REMOVED_PRE)

\* ---------------------------------------------------------------------
\* The tool registry (crates/agents/src/tool_registry.rs)
\* ---------------------------------------------------------------------

\* register calls that are followed.
MaxRegisters == 3

\* Names of tools: two that differ in the case of a letter, and one that
\* the other two are prefixes of or that has them as a prefix.
ToolNames ==
  { <<"e", "x", "e", "c">>, <<"E", "x", "e", "c">>, <<"e", "x", "e", "c", "2">> }

\* The tools that are registered: the description tells apart two tools of
\* one name.
AgentTools ==
  [name : ToolNames, description : { <<"f", "i", "r", "s", "t">>, <<"s", "e", "c", "o", "n", "d">> }]

\* ToolRegistry::new
RegistryInit ==
  /\ GatewayIdle
  /\ LoopParked
  /\ ChatParked
  /\ RouterIdle
  /\ FailoverIdle
  /\ AppleIdle
  /\ tools = EmptyMapOver(ToolNames)
  /\ registered = <<>>
  /\ lookup = NoneV
  /\ fn_call = NoneV
  /\ fn_ret = <<>>

\* Variant: a tool whose name is taken is not inserted.
register_keeps_first(tool) ==
  IF map_get(tools, tool.name).some THEN tools ELSE map_insert(tools, tool.name, tool)

\* ToolRegistry::register: the map after the insert.
register(tool) == map_insert(tools, tool.name, tool)

Register(tool) ==
  /\ Len(registered) < MaxRegisters
  /\ tools' = register(tool)
  /\ registered' = Append(registered, tool)
  /\ UNCHANGED <<lookup, fn_call, fn_ret>>
  /\ LibraryFixed

\* ToolRegistry::get
Get(name) ==
  /\ lookup' = Some([name |-> name, ret |-> map_get(tools, name)])
  /\ UNCHANGED <<tools, registered, fn_call, fn_ret>>
  /\ LibraryFixed

RegistryNext ==
  \/ \E tool \in AgentTools : Register(tool)
  \/ \E name \in ToolNames : Get(name)

RegistrySpec == RegistryInit /\ [][RegistryNext]_<<vars, outside>>


\* ---------------------------------------------------------------------
\* Claims about the tool registry
\* ---------------------------------------------------------------------

\* The register calls made under a name, by their place in the order of
\* the calls.
RegisteredAs(name) == { i \in 1..Len(registered) : registered[i].name = name }

\* The tool of the last register call under the name, if there was one.
LatestRegistered(name) ==
  IF RegisteredAs(name) = {} THEN NoneV
  ELSE Some(registered[CHOOSE i \in RegisteredAs(name) : \A j \in RegisteredAs(name) : j <= i])

\* C23: get(name) returns the tool most recently registered under exactly
\* that name, and nothing for a name that was never registered.  A get
\* changes nothing, so what it returned is compared with the calls made
\* up to now.
C23_GetReturnsLatestRegistered ==
  [][\A name \in ToolNames :
       Get(name) => lookup'.v.ret = LatestRegistered(name)]_<<vars, outside>>

\* A name was registered twice with different tools, another name differing
\* in case only was registered as well, and get was asked for the first.
C23_Witness ==
  /\ lookup.some
  /\ \E i, j \in RegisteredAs(lookup.v.name) : i < j /\ registered[i] # registered[j]
  /\ \E k \in 1..Len(registered) :
       /\ registered[k].name # lookup.v.name
       /\ to_lowercase(registered[k].name) = to_lowercase(lookup.v.name)
  /\ lookup.v.ret = LatestRegistered(lookup.v.name)

\* ---------------------------------------------------------------------
\* The tag of a pre-built sandbox image (crates/tools/src/sandbox.rs)
\* ---------------------------------------------------------------------

\* The longest package list sandbox_image_tag is called with.
MaxPackages == 3

TAG_VERSION == <<"v", "4">>

MOLTIS_MAIN_SANDBOX ==
  <<"m", "o", "l", "t", "i", "s", "-", "m", "a", "i", "n", "-", "s", "a", "n", "d", "b", "o", "x">>

BaseImages == { DEFAULT_SANDBOX_IMAGE, <<"u", "b", "u", "n", "t", "u", ":", "2", "4", ".", "0", "4">> }

PackageNames == { <<"c", "u", "r", "l">>, <<"g", "i", "t">>, <<"w", "g", "e", "t">> }

\* The package lists: every list of at most MaxPackages names, a name more
\* than once included.
PackageLists == UNION { [1..n -> PackageNames] : n \in 0..MaxPackages }

\* The values of a digest: the hash is 64 bits wide in the code and 16 bits
\* wide here.
HashSpace == 2^16

\* DefaultHasher::new: nothing was written yet.
hasher_new == <<>>

\* Hasher::write: the bytes are fed one after the other, with no separator
\* between two writes: the state is the stream of the bytes written so far.
hasher_write(h, bytes) == h \o bytes

\* Hasher::finish: a digest of the stream written, which depends on the
\* bytes and on their places (a position-weighted checksum stands for
\* SipHash; the sum is taken as the cardinality of a bag).
hasher_finish(h) ==
  IF h = <<>> THEN 0
  ELSE BagCardinality([i \in 1..Len(h) |-> i * (Ord(h[i]) + 1)]) % HashSpace

HexDigits == <<"0", "1", "2", "3", "4", "5", "6", "7", "8", "9", "a", "b", "c", "d", "e", "f">>

\* format!("{:x}")
RECURSIVE fmt_lower_hex(_)
fmt_lower_hex(n) ==
  IF n < 16 THEN <<HexDigits[n + 1]>>
  ELSE fmt_lower_hex(n \div 16) \o <<HexDigits[(n % 16) + 1]>>

\* format!("{:016x}")
fmt_016x(n) ==
  LET digits == fmt_lower_hex(n)
  IN IF Len(digits) >= 16 THEN digits ELSE Repeat("0", 16 - Len(digits)) \o digits

\* The list with x put before the first element that is greater than x.
RECURSIVE insert_sorted(_, _)
insert_sorted(list, x) ==
  IF list = <<>> THEN <<x>>
  ELSE IF BytesLess(x, list[1]) THEN <<x>> \o list
  ELSE <<list[1]>> \o insert_sorted(Tail(list), x)

\* slice::sort of strings: ascending byte order, equal elements kept.
RECURSIVE sort(_)
sort(list) ==
  IF list = <<>> THEN <<>>
  ELSE insert_sorted(sort(Take(list, Len(list) - 1)), list[Len(list)])

\* The hasher after every package was written.
RECURSIVE write_all(_, _)
write_all(h, list) ==
  IF list = <<>> THEN h ELSE write_all(hasher_write(h, list[1]), Tail(list))

\* Variant: the packages are written in the order they were given in.
sandbox_image_tag_unsorted(repo, base, packages) ==
  LET h == write_all(hasher_write(hasher_write(hasher_write(hasher_new, TAG_VERSION), repo), base),
                     packages)
  IN repo \o <<":">> \o fmt_016x(hasher_finish(h))

\* Compute the content-hash tag for a pre-built sandbox image.
sandbox_image_tag(repo, base, packages) ==
  LET h == write_all(hasher_write(hasher_write(hasher_write(hasher_new, TAG_VERSION), repo), base),
                     sort(packages))
  IN repo \o <<":">> \o fmt_016x(hasher_finish(h))

ImageTagInit ==
  /\ GatewayIdle
  /\ LoopParked
  /\ ChatParked
  /\ RouterIdle
  /\ FailoverIdle
  /\ AppleIdle
  /\ tools = <<>>
  /\ registered = <<>>
  /\ lookup = NoneV
  /\ fn_call \in { Some([repo |-> MOLTIS_MAIN_SANDBOX, base |-> b]) : b \in BaseImages }
  /\ fn_ret = <<>>

\* sandbox_image_tag(repo, base, packages), twice at most
ImageTagCall(packages) ==
  /\ Len(fn_ret) < 2
  /\ fn_ret' = Append(fn_ret, [packages |-> packages,
                               tag |-> sandbox_image_tag(fn_call.v.repo, fn_call.v.base, packages)])
  /\ UNCHANGED <<tools, registered, lookup, fn_call>>
  /\ LibraryFixed

ImageTagNext == \E packages \in PackageLists : ImageTagCall(packages)

ImageTagSpec == ImageTagInit /\ [][ImageTagNext]_<<vars, outside>>


\* ---------------------------------------------------------------------
\* Claims about the image tag
\* ---------------------------------------------------------------------

Occurrences(list, x) == Cardinality({ i \in 1..Len(list) : list[i] = x })

\* P and Q are permutations of one multiset.
IsPermutation(P, Q) == \A x \in PackageNames : Occurrences(P, x) = Occurrences(Q, x)

\* C24: sandbox_image_tag(repo, base, P) equals sandbox_image_tag(repo,
\* base, Q) whenever P and Q are permutations of the same multiset.
C24_TagIgnoresPackageOrder ==
  (Len(fn_ret) = 2 /\ IsPermutation(fn_ret[1].packages, fn_ret[2].packages))
    => fn_ret[1].tag = fn_ret[2].tag

\* Two lists of three packages, one of them twice, in different orders;
\* the tag is the repository, a colon and sixteen hex digits.
C24_Witness ==
  /\ Len(fn_ret) = 2
  /\ fn_ret[1].packages # fn_ret[2].packages
  /\ IsPermutation(fn_ret[1].packages, fn_ret[2].packages)
  /\ Len(fn_ret[1].packages) = 3
  /\ \E x \in PackageNames : Occurrences(fn_ret[1].packages, x) = 2
  /\ fn_ret[1].tag = fn_ret[2].tag
  /\ Len(fn_ret[1].tag) = Len(MOLTIS_MAIN_SANDBOX) + 17


\* ---------------------------------------------------------------------
\* More properties of the agent loop
\* ---------------------------------------------------------------------

\* C27: every Thinking event emitted in a turn is followed by a
\* ThinkingDone event before the turn ends, successfully or with an error.
C27_ThinkingIsFollowedByThinkingDone ==
  pc = "Returned" =>
    \A k \in 1..Len(events) :
      events[k] = EvThinking =>
        \E j \in (k + 1)..Len(events) : events[j] = EvThinkingDone

Min(a, b) == IF a <= b THEN a ELSE b

\* The text is a cut of at most max_bytes bytes that ends at a char
\* boundary, followed by "\n\n[truncated — <digits> bytes total]".
CutAndMarked(content, max_bytes) ==
  \E cut \in 0..Min(max_bytes, Len(content)) :
    LET rest == Drop(content, cut)
        digits == SubSeq(rest, Len(TRUNC_PRE) + 1, Len(rest) - Len(TRUNC_POST))
    IN /\ is_char_boundary(content, cut)
       /\ Len(rest) > Len(TRUNC_PRE) + Len(TRUNC_POST)
       /\ Take(rest, Len(TRUNC_PRE)) = TRUNC_PRE
       /\ EndsWith(rest, TRUNC_POST)
       /\ \A d \in 1..Len(digits) : is_ascii_digit(digits[d])

\* The text is one the sanitizer can have returned for the limit: it is
\* within the limit, or it was cut at the limit and marked, so that it is
\* no longer than the limit and the marker together.
ProducedBySanitizer(content, max_bytes) ==
  Len(content) <= max_bytes \/ CutAndMarked(content, max_bytes)

\* The step appends a tool-role message.
AppendsToolMessage ==
  /\ Len(messages') = Len(messages) + 1
  /\ messages'[Len(messages')].role = "tool"

\* C30 as stated: every tool-role message the agent loop appends has
\* content that was produced by the sanitizer.
C30_Original ==
  [][AppendsToolMessage =>
       ProducedBySanitizer(messages'[Len(messages')].content, max_tool_result_bytes)]_vars

\* C30: every tool-role message the agent loop appends for a tool call
\* that no BeforeToolCall hook blocked has content that was produced by the
\* sanitizer, so its byte length never exceeds max_tool_result_bytes plus
\* the truncation marker.
C30_ToolMessagesAreSanitizedUnlessBlocked ==
  [][(AppendsToolMessage /\ pc # "BeforeToolCall") =>
       ProducedBySanitizer(messages'[Len(messages')].content, max_tool_result_bytes)]_vars

\* The result of an executed tool was appended cut and marked.
C30_Witness ==
  /\ pc = "ToolCall"
  /\ Len(executed) >= 1
  /\ Len(messages) > TurnStart
  /\ messages[Len(messages)].role = "tool"
  /\ Len(messages[Len(messages)].content) > max_tool_result_bytes
  /\ CutAndMarked(messages[Len(messages)].content, max_tool_result_bytes)
  /\ last_hook.point = "ToolResultPersist"

\* {"error":"blocked by hook: <reason>"} as serde_json writes it.
BlockedContent(reason) ==
  <<"{", "\"", "e", "r", "r", "o", "r", "\"", ":", "\"">>
    \o <<"b", "l", "o", "c", "k", "e", "d", " ", "b", "y", " ", "h", "o", "o", "k", ":", " ">>
    \o reason \o <<"\"", "}">>

\* The step is a BeforeToolCall dispatch that answered Block.
BlockedStep ==
  /\ pc = "BeforeToolCall"
  /\ last_hook'.point = "BeforeToolCall"
  /\ last_hook'.tag = "Block"

\* C31: if a BeforeToolCall handler returns Block(reason) for a tool call,
\* the tool's execute is not invoked for that call; the loop emits
\* ToolCallEnd{success=false, error=reason}, appends a tool-role message
\* whose content is {"error": "blocked by hook: <reason>"}, and goes on to
\* the next tool call.
C31_BlockedCallIsSkipped ==
  [][BlockedStep =>
       LET tc == response.tool_calls[tc_index]
       IN /\ executed' = executed
          /\ events' =
               (IF on_event
                THEN Append(events,
                       [ev |-> "ToolCallEnd", id |-> tc.id, name |-> tc.name,
                        success |-> FALSE, error |-> Some(BLOCK_REASON), result |-> NoneV])
                ELSE events)
          /\ messages' = Append(messages,
               [role |-> "tool", tool_call_id |-> tc.id,
                content |-> BlockedContent(BLOCK_REASON)])
          /\ tc_index' = tc_index + 1
          /\ pc' = "ToolCall"]_vars

\* The first of two calls was blocked: the event and the message are there,
\* nothing was executed, and the loop is at the second call.
C31_Witness ==
  /\ pc = "ToolCall"
  /\ last_hook = [point |-> "BeforeToolCall", tag |-> "Block"]
  /\ tc_index = 2
  /\ Len(response.tool_calls) = 2
  /\ executed = <<>>
  /\ on_event
  /\ events[Len(events)].ev = "ToolCallEnd"
  /\ events[Len(events)].error = Some(BLOCK_REASON)
  /\ messages[Len(messages)].content = BlockedContent(BLOCK_REASON)

\* The text holds a tool_call fence, closed by a fence, whose interior is
\* the JSON text of a value with a string "tool" field.
HasToolCallBlock(text) ==
  \E i \in 0..Len(text), j \in 0..Len(text) :
    /\ i + Len(START_MARKER) <= j
    /\ j + Len(FENCE) <= Len(text)
    /\ SubSeq(text, i + 1, i + Len(START_MARKER)) = START_MARKER
    /\ SubSeq(text, j + 1, j + Len(FENCE)) = FENCE
    /\ \E v \in ToolJsonValues :
         /\ trim(SubSeq(text, i + Len(START_MARKER) + 1, j)) = to_string(v)
         /\ v.t = "Object"
         /\ K_tool \in DOMAIN v.m
         /\ v.m[K_tool].t = "String"

\* The response may be one a tool call is synthesized from.
MaySynthesize(r) ==
  /\ ~native_tools
  /\ r.tool_calls = <<>>
  /\ r.text.some
  /\ HasToolCallBlock(r.text.v)

\* C32: a tool call is synthesized from the text of a response only when
\* the provider lacks native tool support, the response carries no tool
\* calls and the text holds a tool_call block whose interior parses as a
\* value with a string "tool" field.  In every other case the response is
\* left unchanged: a response without tool calls then ends the turn, with
\* its text returned as it is and no tool executed for it.
C32_SynthesisOnlyFromParsableBlock ==
  [][/\ (pc = "MessageSent" /\ ~MaySynthesize(response)) =>
          /\ response' = response
          /\ executed' = executed
          /\ (response.tool_calls = <<>> => pc' = "AgentEnd")
     /\ (pc = "MessageSent" /\ response' # response) =>
          /\ MaySynthesize(response)
          /\ Len(response'.tool_calls) = 1
          /\ pc' = "ToolCall"
     /\ pc = "AgentEnd" =>
          /\ executed' = executed
          /\ ret'.status = "Ok"
          /\ ret'.text = (IF response.text.some THEN response.text.v ELSE <<>>)]_vars

\* A turn of a provider without native tool support that answered with a
\* block that is not JSON: the text was returned and nothing was executed.
C32_Witness ==
  /\ pc = "Returned"
  /\ ~native_tools
  /\ ret.status = "Ok"
  /\ ret.text = Fenced(<<>>, <<"x">>, <<>>)
  /\ executed = <<>>
  /\ responses = <<[text |-> Some(Fenced(<<>>, <<"x">>, <<>>)), tool_calls |-> <<>>,
                    usage |-> [input_tokens |-> 10, output_tokens |-> 5]]>>

\* The keys of tool_context.
ContextKeys ==
  IF tool_context.some /\ tool_context.v.t = "Object" THEN DOMAIN tool_context.v.m ELSE {}

\* passed is args overlaid with every key of tool_context, the value of
\* tool_context taken for a key of both.
Overlaid(args, passed) ==
  IF ContextKeys = {} THEN passed = args
  ELSE /\ passed.t = "Object"
       /\ args.t = "Object"
       /\ DOMAIN passed.m = (DOMAIN args.m) \cup ContextKeys
       /\ \A k \in DOMAIN passed.m :
            passed.m[k] = (IF k \in ContextKeys THEN tool_context.v.m[k] ELSE args.m[k])

\* The step leaves the BeforeToolCall dispatch with the effective
\* arguments of the call: the replacement of the hook, else the original.
EffectiveArgsChosen ==
  (pc = "BeforeToolCall" /\ pc' = "Execute") =>
     IF last_hook'.tag = "ModifyPayload"
     THEN effective_args' \in {REDACTED, REDACTED_TEXT}
     ELSE effective_args' = response.tool_calls[tc_index].arguments

\* The step invokes tool.execute.
Invokes == pc = "Execute" /\ Len(executed') = Len(executed) + 1

\* C33 as stated: for every tool that is executed, the arguments passed to
\* execute are the effective arguments of the call overlaid with every key
\* of tool_context, the value of tool_context passed for a key of both.
C33_Original ==
  [][/\ EffectiveArgsChosen
     /\ Invokes => Overlaid(effective_args, executed'[Len(executed')].args)]_vars

\* C33: for every tool that is executed, the arguments passed to execute
\* are the effective arguments of the call (the replacement of the hook if
\* BeforeToolCall returned ModifyPayload, else the original), overlaid with
\* every key of tool_context when the effective arguments are a JSON
\* object, the value of tool_context passed for a key of both; effective
\* arguments that are not a JSON object are passed as they are.
C33_ContextOverlaysObjectArguments ==
  [][/\ EffectiveArgsChosen
     /\ Invokes =>
          IF effective_args.t = "Object"
          THEN Overlaid(effective_args, executed'[Len(executed')].args)
          ELSE executed'[Len(executed')].args = effective_args]_vars

\* A tool was executed with the key "a" of its arguments replaced by the
\* value of tool_context and the session key added.
C33_Witness ==
  /\ Len(executed) >= 1
  /\ tool_context.some
  /\ executed[1].args.t = "Object"
  /\ DOMAIN executed[1].args.m = {<<"a">>, K_session_key}
  /\ executed[1].args.m[<<"a">>] = tool_context.v.m[<<"a">>]
  /\ executed[1].args.m[<<"a">>] # PlainCall.arguments.m[<<"a">>]
  /\ executed[1].args.m[K_session_key] = tool_context.v.m[K_session_key]


\* ---------------------------------------------------------------------
\* The sandbox id of a session: SandboxRouter::sandbox_id_for
\* ---------------------------------------------------------------------

\* Most calls of sandbox_id_for that are followed.
MaxIdCalls == 2

\* Session keys: plain ones, and keys with a character that is not kept.
IdSessionKeys ==
  { MAIN,
    <<"s", "e", "s", "s", "i", "o", "n", ":", "a", "b", "c">>,
    <<"s", "e", "s", "s", "i", "o", "n", "-", "a", "b", "c">>,
    <<"s", "e", "s", "s", "i", "o", "n", "/", "a", "b", "c">>,
    <<"a", ".", "b">>,
    <<"a", "_", "b">>,
    <<"a", " ", "b">>,
    <<"A", "1">>,
    <<"a", "L2", "X8", "b">>,
    <<>> }

\* The first byte of a char.
IsLeadByte(b) == b # "X8"

\* str::chars: one element for each char, named by its first byte.
chars(s) == SelectSeq(s, IsLeadByte)

\* The closure of the map: the char is kept if it is alphanumeric, a dash,
\* an underscore or a dot, else it becomes a dash.
sanitize_char(c) ==
  IF is_ascii_alphanumeric(c) \/ c = "-" \/ c = "_" \/ c = "." THEN c ELSE "-"

\* Derive a SandboxId for a given session key.
sandbox_id_for(session_key) ==
  [scope |-> "Session",
   key |-> [i \in 1..Len(chars(session_key)) |-> sanitize_char(chars(session_key)[i])]]

\* DockerSandbox::container_name
DockerSandbox_container_name(id) == CONTAINER_PREFIX \o <<"-">> \o id.key

SandboxIdInit ==
  /\ GatewayIdle
  /\ LoopParked
  /\ ChatParked
  /\ RouterIdle
  /\ FailoverIdle
  /\ AppleIdle
  /\ LibraryIdle

\* sandbox_id_for(session_key), and the name of the container of the id
SandboxIdFor(session_key) ==
  /\ Len(fn_ret) < MaxIdCalls
  /\ fn_ret' = Append(fn_ret,
       [session_key |-> session_key,
        id |-> sandbox_id_for(session_key),
        container |-> DockerSandbox_container_name(sandbox_id_for(session_key))])
  /\ UNCHANGED <<tools, registered, lookup, fn_call>>
  /\ LibraryFixed

SandboxIdNext == \E session_key \in IdSessionKeys : SandboxIdFor(session_key)

SandboxIdSpec == SandboxIdInit /\ [][SandboxIdNext]_<<vars, outside>>

\* C35: two different session keys never resolve to the same sandbox id,
\* so two different sessions never share one sandbox container.
C35_DifferentKeysDifferentSandboxes ==
  \A i \in 1..Len(fn_ret), j \in 1..Len(fn_ret) :
    fn_ret[i].session_key # fn_ret[j].session_key =>
      /\ fn_ret[i].id # fn_ret[j].id
      /\ fn_ret[i].container # fn_ret[j].container


\* ---------------------------------------------------------------------
\* The idempotency cache: DedupeCache
\* ---------------------------------------------------------------------

\* DedupeCache.ttl, in ticks of the clock.
DedupeTtl == 2

\* DedupeCache.max_entries
DedupeMaxEntries == 2

\* The last tick of the clock that is followed.
MaxTime == 3

\* Most check_and_insert calls that are followed.
MaxChecks == 4

DedupeKeys == { <<"k", "1">>, <<"k", "2">>, <<"k", "3">> }

\* DedupeCache::new
DedupeInit ==
  /\ LoopParked
  /\ ChatParked
  /\ RouterIdle
  /\ FailoverIdle
  /\ AppleIdle
  /\ LibraryIdle
  /\ NodesIdle
  /\ InvokeIdle
  /\ TransportIdle
  /\ entries = EmptyMapOver(DedupeKeys)
  /\ now = 0
  /\ checks = <<>>

DedupeFixed ==
  UNCHANGED <<vars, chat_vars, sandbox_vars, library_vars, node_vars, invoke_vars,
              transport_vars>>

\* Variant: an entry that is exactly ttl old is kept.
evict_expired_late(cache) ==
  LET cutoff == now - DedupeTtl
  IN [k \in DOMAIN cache |->
        IF cache[k].some /\ cache[k].v >= cutoff THEN cache[k] ELSE NoneV]

\* DedupeCache::evict_expired: the entries after it.
evict_expired(cache) ==
  LET cutoff == now - DedupeTtl
  IN [k \in DOMAIN cache |->
        IF cache[k].some /\ cache[k].v > cutoff THEN cache[k] ELSE NoneV]

\* The keys a cache holds.
Held(cache) == { k \in DOMAIN cache : cache[k].some }

\* The keys min_by_key may return: an entry with the least inserted_at (the
\* one the iteration of the HashMap meets first).
Oldest(cache) ==
  { k \in Held(cache) : \A other \in Held(cache) : cache[k].v <= cache[other].v }

\* DedupeCache::check_and_insert
CheckAndInsert(key) ==
  LET live == evict_expired(entries)
  IN /\ Len(checks) < MaxChecks
     /\ IF live[key].some
        THEN /\ entries' = live
             /\ checks' = Append(checks,
                  [key |-> key, at |-> now, ret |-> TRUE, evicted |-> NoneV])
        ELSE IF Cardinality(Held(live)) >= DedupeMaxEntries /\ Held(live) # {}
        THEN \E oldest_key \in Oldest(live) :
               /\ entries' = map_insert(map_remove(live, oldest_key), key, now)
               /\ checks' = Append(checks,
                    [key |-> key, at |-> now, ret |-> FALSE, evicted |-> Some(oldest_key)])
        ELSE /\ entries' = map_insert(live, key, now)
             /\ checks' = Append(checks,
                  [key |-> key, at |-> now, ret |-> FALSE, evicted |-> NoneV])
     /\ UNCHANGED now
     /\ DedupeFixed

\* Time passes.
Tick ==
  /\ now < MaxTime
  /\ now' = now + 1
  /\ UNCHANGED <<entries, checks>>
  /\ DedupeFixed

DedupeNext ==
  \/ \E key \in DedupeKeys : CheckAndInsert(key)
  \/ Tick

DedupeSpec == DedupeInit /\ [][DedupeNext]_<<vars, outside>>

\* The key of the last call is recorded.
LastKeyRecorded ==
  checks # <<>> => entries[checks[Len(checks)].key].some

MaxOutputLimit == 3

\* "\n... [output truncated]"
OUTPUT_TRUNCATED ==
  <<"\n", ".", ".", ".", " ", "[", "o", "u", "t", "p", "u", "t", " ",
    "t", "r", "u", "n", "c", "a", "t", "e", "d", "]">>

\* U+FFFD REPLACEMENT CHARACTER
REPLACEMENT_CHARACTER == <<"L3", "X8", "X8">>

\* What a command may write to a stream: nothing, ASCII text, text with a
\* two-byte char, and a byte that is no UTF-8 text.
ExecOutputs ==
  { <<>>, <<"a", "b">>, <<"a", "b", "c", "d">>, <<"a", "L2", "X8", "b">>, <<"X8">> }

\* What waiting for the child ends with: it exited, waiting failed, or the
\* timeout fired first.
ExecWaits == { "exited", "failed", "elapsed" }

\* Whether the byte at i belongs to a char that starts at or before i.
InChar(bytes, i) ==
  \E p \in 1..i :
    /\ bytes[p] # "X8"
    /\ p + len_utf8(bytes[p]) > i
    /\ p + len_utf8(bytes[p]) - 1 <= Len(bytes)
    /\ \A q \in (p + 1)..(p + len_utf8(bytes[p]) - 1) : bytes[q] = "X8"

\* String::from_utf8_lossy(..).into_owned(): the bytes of every char are
\* kept, a byte outside a char becomes U+FFFD.
RECURSIVE from_utf8_lossy_from(_, _)
from_utf8_lossy_from(bytes, i) ==
  IF i > Len(bytes) THEN <<>>
  ELSE (IF InChar(bytes, i) THEN <<bytes[i]>> ELSE REPLACEMENT_CHARACTER)
         \o from_utf8_lossy_from(bytes, i + 1)

from_utf8_lossy(bytes) == from_utf8_lossy_from(bytes, 1)

\* The result of a call that panicked.
Panicked == [status |-> "Panic"]

\* String::truncate: the text after it, None if it panics, which it does
\* if new_len does not lie on a char boundary.
truncate(text, new_len) ==
  IF new_len <= Len(text)
  THEN IF is_char_boundary(text, new_len) THEN Some(Take(text, new_len)) ELSE NoneV
  ELSE Some(text)

\* The stream as exec_command returns it; None if the cut panics.
limited(text, max_output_bytes) ==
  IF Len(text) > max_output_bytes
  THEN IF truncate(text, max_output_bytes).some
       THEN Some(truncate(text, max_output_bytes).v \o OUTPUT_TRUNCATED)
       ELSE NoneV
  ELSE Some(text)

\* Execute a shell command with timeout and output limits: what the call
\* returns for what the child wrote and how the wait ended.
exec_command(wait, out, err, exit_code, max_output_bytes) ==
  LET stdout == limited(from_utf8_lossy(out), max_output_bytes)
      stderr == limited(from_utf8_lossy(err), max_output_bytes)
  IN IF wait = "failed" THEN [status |-> "Err", msg |-> "failed to run command"]
     ELSE IF wait = "elapsed" THEN [status |-> "Err", msg |-> "command timed out"]
     ELSE IF ~stdout.some \/ ~stderr.some THEN Panicked
     ELSE [status |-> "Ok", stdout |-> stdout.v, stderr |-> stderr.v,
           exit_code |-> exit_code]

ExecInit ==
  /\ GatewayIdle
  /\ LoopParked
  /\ ChatParked
  /\ RouterIdle
  /\ FailoverIdle
  /\ AppleIdle
  /\ tools = <<>>
  /\ registered = <<>>
  /\ lookup = NoneV
  /\ fn_call \in { Some([wait |-> w, out |-> o, err |-> e, exit_code |-> c,
                          max_output_bytes |-> m]) :
                      w \in ExecWaits, o \in ExecOutputs, e \in ExecOutputs,
                      c \in {0, 1}, m \in 0..MaxOutputLimit }
  /\ fn_ret = <<>>

\* exec_command(command, opts)
ExecCommand ==
  /\ fn_ret = <<>>
  /\ fn_ret' = <<exec_command(fn_call.v.wait, fn_call.v.out, fn_call.v.err,
                               fn_call.v.exit_code, fn_call.v.max_output_bytes)>>
  /\ UNCHANGED <<tools, registered, lookup, fn_call>>
  /\ LibraryFixed

ExecNext == ExecCommand

ExecSpec == ExecInit /\ [][ExecNext]_<<vars, outside>>

\* The stream is returned cut to the limit and marked if it is longer than
\* the limit, and unchanged if it is not.
CutToLimit(text, returned, max_output_bytes) ==
  IF Len(text) > max_output_bytes
  THEN returned = Take(text, max_output_bytes) \o OUTPUT_TRUNCATED
  ELSE returned = text

\* C38: when a command's stdout or stderr is longer than max_output_bytes,
\* exec_command returns a successful ExecResult in which that stream is cut
\* to max_output_bytes and followed by the marker; output not longer than
\* the limit is returned unchanged.
C38_OutputIsCutAndMarked ==
  (fn_ret # <<>> /\ fn_call.v.wait = "exited") =>
    /\ fn_ret[1].status = "Ok"
    /\ CutToLimit(from_utf8_lossy(fn_call.v.out), fn_ret[1].stdout,
                  fn_call.v.max_output_bytes)
    /\ CutToLimit(from_utf8_lossy(fn_call.v.err), fn_ret[1].stderr,
                  fn_call.v.max_output_bytes)


\* ---------------------------------------------------------------------
\* The node registry: NodeRegistry
\* ---------------------------------------------------------------------

\* Most register and unregister_by_conn calls that are followed.
MaxNodeOps == 4

NodeIds == { <<"n", "1">>, <<"n", "2">> }

ConnIds == { <<"c", "1">>, <<"c", "2">> }

\* NodeSession { node_id, conn_id, .. }
NodeSession(node_id, conn_id) == [node_id |-> node_id, conn_id |-> conn_id]

\* NodeRegistry::new
NodesInit ==
  /\ LoopParked
  /\ ChatParked
  /\ RouterIdle
  /\ FailoverIdle
  /\ AppleIdle
  /\ LibraryIdle
  /\ DedupeIdle
  /\ InvokeIdle
  /\ TransportIdle
  /\ nodes = EmptyMapOver(NodeIds)
  /\ by_conn = EmptyMapOver(ConnIds)
  /\ node_op = Some([op |-> "new", n |-> 0])

NodesFixed ==
  UNCHANGED <<vars, chat_vars, sandbox_vars, library_vars, dedupe_vars, invoke_vars,
              transport_vars>>

\* NodeRegistry::register
RegisterNode(session) ==
  /\ node_op.v.n < MaxNodeOps
  /\ by_conn' = map_insert(by_conn, session.conn_id, session.node_id)
  /\ nodes' = map_insert(nodes, session.node_id, session)
  /\ node_op' = Some([op |-> "register", n |-> node_op.v.n + 1, session |-> session])
  /\ NodesFixed

\* GatewayState::close_client, which calls NodeRegistry::unregister_by_conn:
\* the node the connection is mapped to is removed, if it is mapped.
UnregisterByConn(conn_id) ==
  LET node_id == map_get(by_conn, conn_id)
  IN /\ node_op.v.n < MaxNodeOps
     /\ by_conn' = map_remove(by_conn, conn_id)
     /\ nodes' = (IF node_id.some THEN map_remove(nodes, node_id.v) ELSE nodes)
     /\ node_op' = Some([op |-> "unregister_by_conn", n |-> node_op.v.n + 1,
                          conn_id |-> conn_id,
                          ret |-> (IF node_id.some THEN map_get(nodes, node_id.v) ELSE NoneV)])
     /\ NodesFixed

NodesNext ==
  \/ \E node_id \in NodeIds, conn_id \in ConnIds : RegisterNode(NodeSession(node_id, conn_id))
  \/ \E conn_id \in ConnIds : UnregisterByConn(conn_id)

NodesSpec == NodesInit /\ [][NodesNext]_<<vars, outside>>

\* C39: in the node registry the two maps stay consistent under any
\* sequence of register and unregister_by_conn: by_conn maps a connection
\* id to a node id exactly when the current session of that node was
\* registered over that connection, so closing a connection removes a node
\* only if the current session of the node uses that connection.
C39_MapsStayConsistent ==
  /\ \A conn_id \in ConnIds, node_id \in NodeIds :
       (map_get(by_conn, conn_id) = Some(node_id)) <=>
         (map_get(nodes, node_id).some /\ map_get(nodes, node_id).v.conn_id = conn_id)
  /\ (node_op.v.op = "unregister_by_conn" /\ node_op.v.ret.some) =>
       node_op.v.ret.v.conn_id = node_op.v.conn_id


\* ---------------------------------------------------------------------
\* node.invoke and node.invoke.result
\* ---------------------------------------------------------------------

\* Most node.invoke calls that are followed.
MaxInvokes == 2

\* What a node may return as the result of an invoke.
InvokeResults == { JStr(<<"r", "1">>), JStr(<<"r", "2">>) }

\* The invoke id of the i-th call (uuid::Uuid::new_v4()).
InvokeId(i) == <<"u", i>>

ErrorShape(code, message) == [code |-> code, message |-> message]

InvokeInit ==
  /\ LoopParked
  /\ ChatParked
  /\ RouterIdle
  /\ FailoverIdle
  /\ AppleIdle
  /\ LibraryIdle
  /\ DedupeIdle
  /\ NodesIdle
  /\ TransportIdle
  /\ pending_invokes = {}
  /\ invokes = <<>>

InvokeFixed ==
  UNCHANGED <<vars, chat_vars, sandbox_vars, library_vars, dedupe_vars, node_vars,
              transport_vars>>

\* node.invoke up to node_client.send: the node.invoke.request event is
\* handed to the connection of the node, or the send fails and the call
\* returns.
NodeInvokeSend(sent) ==
  /\ Len(invokes) < MaxInvokes
  /\ invokes' = Append(invokes,
       [invoke_id |-> InvokeId(Len(invokes) + 1),
        pc        |-> (IF sent THEN "Sent" ELSE "Returned"),
        rx        |-> NoneV,
        ret       |-> (IF sent THEN NoneV
                       ELSE Some(ErrOf(ErrorShape("UNAVAILABLE", "node send failed")))),
        answer    |-> NoneV])
  /\ UNCHANGED pending_invokes
  /\ InvokeFixed

\* node.invoke after the send: the PendingInvoke is inserted and the call
\* starts to wait for the oneshot.
NodeInvokeRegister(i) ==
  /\ invokes[i].pc = "Sent"
  /\ pending_invokes' = pending_invokes \cup {invokes[i].invoke_id}
  /\ invokes' = [invokes EXCEPT ![i].pc = "Waiting"]
  /\ InvokeFixed

\* node.invoke.result: the node that was sent the request of call i returns
\* its result; the pending invoke is removed and the result sent to it, or
\* the request is rejected.
NodeInvokeResult(i, value) ==
  LET invoke_id == invokes[i].invoke_id
      held      == invoke_id \in pending_invokes
  IN /\ invokes[i].pc \in {"Sent", "Waiting", "Returned"}
     /\ invokes[i].ret # Some(ErrOf(ErrorShape("UNAVAILABLE", "node send failed")))
     /\ ~invokes[i].answer.some
     /\ pending_invokes' = pending_invokes \ {invoke_id}
     /\ invokes' = [invokes EXCEPT
          ![i].rx = IF held THEN Some(value) ELSE @,
          ![i].answer = Some(
            [result |-> value,
             late   |-> invokes[i].pc = "Returned",
             ret    |-> (IF held THEN OkOf(JObj(<<>>))
                         ELSE ErrOf(ErrorShape("INVALID_REQUEST",
                                             "no pending invoke for this id")))])]
     /\ InvokeFixed

\* node.invoke: the oneshot yields the result.
NodeInvokeReceive(i) ==
  /\ invokes[i].pc = "Waiting"
  /\ invokes[i].rx.some
  /\ invokes' = [invokes EXCEPT ![i].pc = "Returned", ![i].ret = Some(OkOf(invokes[i].rx.v))]
  /\ UNCHANGED pending_invokes
  /\ InvokeFixed

\* node.invoke: 30 s pass with nothing on the oneshot.
NodeInvokeTimeout(i) ==
  /\ invokes[i].pc = "Waiting"
  /\ ~invokes[i].rx.some
  /\ pending_invokes' = pending_invokes \ {invokes[i].invoke_id}
  /\ invokes' = [invokes EXCEPT
       ![i].pc = "Returned",
       ![i].ret = Some(ErrOf(ErrorShape("AGENT_TIMEOUT", "node invoke timeout")))]
  /\ InvokeFixed

InvokeNext ==
  \/ \E sent \in BOOLEAN : NodeInvokeSend(sent)
  \/ \E i \in DOMAIN invokes : NodeInvokeRegister(i)
  \/ \E i \in DOMAIN invokes, value \in InvokeResults : NodeInvokeResult(i, value)
  \/ \E i \in DOMAIN invokes : NodeInvokeReceive(i)
  \/ \E i \in DOMAIN invokes : NodeInvokeTimeout(i)

InvokeSpec == InvokeInit /\ [][InvokeNext]_<<vars, outside>>

\* C34: a result that a node returns for an invoke id before the call that
\* issued the id has timed out is accepted and handed to that call: it is
\* never rejected as having no pending invoke, and the call returns it.
C34_ResultWithinTimeoutIsDelivered ==
  \A i \in DOMAIN invokes :
    (invokes[i].answer.some /\ ~invokes[i].answer.v.late) =>
      /\ invokes[i].answer.v.ret.ok
      /\ invokes[i].rx = Some(invokes[i].answer.v.result)
      /\ invokes[i].pc = "Returned" => invokes[i].ret = Some(OkOf(invokes[i].answer.v.result))


\* ---------------------------------------------------------------------
\* The MCP stdio transport: StdioTransport
\* ---------------------------------------------------------------------

\* Most request calls that are followed.
MaxRequests == 3

\* JsonRpcResponse { id, result, error }
JsonRpcResponse(id, is_error) == [id |-> id, error |-> is_error]

\* StdioTransport::spawn, with the reader task started
TransportInit ==
  /\ LoopParked
  /\ ChatParked
  /\ RouterIdle
  /\ FailoverIdle
  /\ AppleIdle
  /\ LibraryIdle
  /\ DedupeIdle
  /\ NodesIdle
  /\ InvokeIdle
  /\ pending = {}
  /\ next_id = 1
  /\ requests = <<>>

TransportFixed ==
  UNCHANGED <<vars, chat_vars, sandbox_vars, library_vars, dedupe_vars, node_vars,
              invoke_vars>>

\* request up to the insert: the id is taken from next_id and the sender of
\* the oneshot is put into pending under it.
RequestInsert ==
  /\ Len(requests) < MaxRequests
  /\ next_id' = next_id + 1
  /\ pending' = pending \cup {next_id}
  /\ requests' = Append(requests, [id |-> next_id, pc |-> "Inserted", rx |-> NoneV, ret |-> NoneV])
  /\ TransportFixed

\* request: the line is written to the stdin of the server and flushed, or
\* the write fails and `?` returns the error.
RequestWrite(i, written) ==
  /\ requests[i].pc = "Inserted"
  /\ requests' = [requests EXCEPT
       ![i].pc = IF written THEN "Waiting" ELSE "Returned",
       ![i].ret = IF written THEN NoneV ELSE Some(ErrOf(<<"w", "r", "i", "t", "e">>))]
  /\ UNCHANGED <<pending, next_id>>
  /\ TransportFixed

\* The reader task reads the response of the server to a request that was
\* written: the sender is removed from pending and the response sent on it.
ReaderResponse(i, is_error) ==
  /\ requests[i].pc \in {"Waiting", "Returned"}
  /\ requests[i].id \in pending
  /\ requests[i].ret # Some(ErrOf(<<"w", "r", "i", "t", "e">>))
  /\ pending' = pending \ {requests[i].id}
  /\ requests' = [requests EXCEPT ![i].rx = Some(JsonRpcResponse(requests[i].id, is_error))]
  /\ UNCHANGED next_id
  /\ TransportFixed

\* request: the oneshot yields the response.
RequestReceive(i) ==
  /\ requests[i].pc = "Waiting"
  /\ requests[i].rx.some
  /\ requests' = [requests EXCEPT
       ![i].pc = "Returned",
       ![i].ret = Some(IF requests[i].rx.v.error
                       THEN ErrOf(<<"M", "C", "P", " ", "e", "r", "r", "o", "r">>)
                       ELSE OkOf(requests[i].rx.v))]
  /\ UNCHANGED <<pending, next_id>>
  /\ TransportFixed

\* request: 30 s pass with nothing on the oneshot.
RequestTimeout(i) ==
  /\ requests[i].pc = "Waiting"
  /\ ~requests[i].rx.some
  /\ requests' = [requests EXCEPT
       ![i].pc = "Returned",
       ![i].ret = Some(ErrOf(<<"M", "C", "P", " ", "r", "e", "q", "u", "e", "s", "t", " ",
                               "t", "i", "m", "e", "d", " ", "o", "u", "t">>))]
  /\ UNCHANGED <<pending, next_id>>
  /\ TransportFixed

TransportNext ==
  \/ RequestInsert
  \/ \E i \in DOMAIN requests, written \in BOOLEAN : RequestWrite(i, written)
  \/ \E i \in DOMAIN requests, is_error \in BOOLEAN : ReaderResponse(i, is_error)
  \/ \E i \in DOMAIN requests : RequestReceive(i)
  \/ \E i \in DOMAIN requests : RequestTimeout(i)

TransportSpec == TransportInit /\ [][TransportNext]_<<vars, outside>>

\* C40: once request has returned, with a response, an error or a timeout,
\* pending holds no entry for the id of that request.
C40_ReturnedRequestLeavesNoPendingEntry ==
  \A i \in DOMAIN requests :
    requests[i].pc = "Returned" => requests[i].id \notin pending

====
